---- MODULE Spec2Model ----
(***************************************************************************)
(* The AI-provider orchestration pipeline of the user story map generator: *)
(* AIService (provider selection, fallback to mock content, the keyword    *)
(* selected mock templates, the converter to the internal tree) and        *)
(* GeminiService (credential holder, HTTP call, JSON extraction and        *)
(* normalisation). Line numbers refer to src/unnamed/part_000.             *)
(***************************************************************************)
EXTENDS Integers, Sequences, FiniteSets, TLC

VARIABLES
  env,                \* what import.meta.env yields for each client's credential
  instance,           \* AIService.instance: NoInstance or the two clients' fields
  constructed,        \* how many objects of each class have been constructed
  returned,           \* the objects the getInstance calls have returned
  calls,              \* the generateStoryMap invocations, each with its position
  providers,          \* the value returned by the last getAvailableProviders call
  standalone,         \* a GeminiService used directly, without the orchestrator
  direct,             \* the invocations of its generateStoryMap
  mockArg,            \* argument of a direct generateMockStoryMap application
  mockResult,         \* its return value
  convArg,            \* argument of a convertYAMLToStoryMap application
  convResult,         \* its return value
  normArg,            \* argument of a validateAndTransformResponse application
  normResult,         \* its return value or the error it throws
  replyArg,           \* the text of a provider's reply
  replyResult         \* what the client makes of it

\* The state of the orchestrator, of a client used directly, and of the
\* applications of the pure functions.
orchestratorVars == << env, instance, constructed, returned, calls, providers >>
clientVars == << standalone, direct >>
mockVars == << mockArg, mockResult >>
convVars == << convArg, convResult >>
normVars == << normArg, normResult >>
replyVars == << replyArg, replyResult >>

vars == << orchestratorVars, clientVars, mockVars, convVars, normVars, replyVars >>

-----------------------------------------------------------------------------
(* JavaScript values. A value is a record tagged with its typeof/shape, so  *)
(* that truthiness and Array.isArray are computed as the runtime does.      *)
(* A string is held either as a literal (JStr) or, where the program        *)
(* inspects its characters (a product description), as the sequence of its  *)
(* one-character strings (JChars).                                          *)

JUndefined == [t |-> "undefined"]
JNull == [t |-> "null"]
JStr(s) == [t |-> "string", v |-> s]
JChars(s) == [t |-> "string", c |-> s]
JNum(n) == [t |-> "number", v |-> n]
JArr(a) == [t |-> "array", v |-> a]
JObj(o) == [t |-> "object", v |-> o]

\* ToBoolean: undefined, null, "", 0 are falsy; arrays and objects are truthy.
Truthy(x) ==
  CASE x.t = "undefined" -> FALSE
    [] x.t = "null" -> FALSE
    [] x.t = "string" -> IF "v" \in DOMAIN x THEN x.v # "" ELSE x.c # << >>
    [] x.t = "number" -> x.v # 0
    [] OTHER -> TRUE

isArray(x) == x.t = "array"

-----------------------------------------------------------------------------
(* Strings as character sequences: toLowerCase and includes.                *)

UpperCase ==
  << "A", "B", "C", "D", "E", "F", "G", "H", "I", "J", "K", "L", "M",
     "N", "O", "P", "Q", "R", "S", "T", "U", "V", "W", "X", "Y", "Z" >>

LowerCase ==
  << "a", "b", "c", "d", "e", "f", "g", "h", "i", "j", "k", "l", "m",
     "n", "o", "p", "q", "r", "s", "t", "u", "v", "w", "x", "y", "z" >>

toLowerChar(c) ==
  IF \E n \in DOMAIN UpperCase : UpperCase[n] = c
    THEN LowerCase[CHOOSE n \in DOMAIN UpperCase : UpperCase[n] = c]
    ELSE c

\* String.prototype.toLowerCase, character by character.
toLowerCase(s) == [i \in 1..Len(s) |-> toLowerChar(s[i])]

\* String.prototype.indexOf from position i (1-based here), -1 when absent.
RECURSIVE indexOfFrom(_, _, _)
indexOfFrom(s, k, i) ==
  IF i + Len(k) - 1 > Len(s) THEN -1
  ELSE IF SubSeq(s, i, i + Len(k) - 1) = k THEN i
  ELSE indexOfFrom(s, k, i + 1)

\* String.prototype.includes.
includes(s, k) == indexOfFrom(s, k, 1) # -1

\* The keyword literals of generateMockStoryMap (part_000:112-116).
KwEcommerce == << "e", "c", "o", "m", "m", "e", "r", "c", "e" >>
KwShop == << "s", "h", "o", "p" >>
KwStore == << "s", "t", "o", "r", "e" >>
KwSocial == << "s", "o", "c", "i", "a", "l" >>
KwNetwork == << "n", "e", "t", "w", "o", "r", "k" >>
KwTask == << "t", "a", "s", "k" >>
KwTodo == << "t", "o", "d", "o" >>

-----------------------------------------------------------------------------
(* The mock templates, transcribed from the object literals.                *)

\* part_000:123-333  private generateEcommerceStoryMap(): StoryMapYAML
generateEcommerceStoryMap ==
  [ title |-> JStr("E-commerce Platform"),
    description |->
      JChars(<<"A", " ", "c", "o", "m", "p", "r", "e", "h", "e", "n", "s", "i", "v", "e", " ", "e",
        "-", "c", "o", "m", "m", "e", "r", "c", "e", " ", "p", "l", "a", "t", "f", "o", "r",
        "m", " ", "f", "o", "r", " ", "o", "n", "l", "i", "n", "e", " ", "r", "e", "t", "a",
        "i", "l">>),
    epics |-> <<
      [ title |-> JStr("User Management"),
        description |-> JStr("Core user account and authentication functionality"),
        features |-> <<
          [ title |-> JStr("User Registration"),
            description |-> JStr("Allow users to create accounts"),
            tasks |-> <<
              [ title |-> JStr("Registration Form"),
                description |-> JStr("Create user registration form with validation"),
                priority |-> JStr("high"),
                effort |-> JStr("3 days"),
                acceptance_criteria |->
                  << JStr("Form includes email, password, and name fields"),
                    JStr("Email validation is implemented"),
                    JStr("Password strength requirements are enforced") >> ],
              [ title |-> JStr("Email Verification"),
                description |-> JStr("Send verification email to new users"),
                priority |-> JStr("medium"),
                effort |-> JStr("2 days"),
                acceptance_criteria |->
                  << JStr("Verification email is sent upon registration"),
                    JStr("Email contains secure verification link"),
                    JStr("Account is activated upon email verification") >> ] >> ],
          [ title |-> JStr("User Authentication"),
            description |-> JStr("Login and session management"),
            tasks |-> <<
              [ title |-> JStr("Login System"),
                description |-> JStr("Implement secure login functionality"),
                priority |-> JStr("high"),
                effort |-> JStr("2 days"),
                acceptance_criteria |->
                  << JStr("Users can login with email and password"),
                    JStr("Failed login attempts are tracked"),
                    JStr("Session tokens are securely generated") >> ] >> ] >> ],
      [ title |-> JStr("Product Catalog"),
        description |-> JStr("Product browsing and search functionality"),
        features |-> <<
          [ title |-> JStr("Product Listing"),
            description |-> JStr("Display products in a searchable catalog"),
            tasks |-> <<
              [ title |-> JStr("Product Grid"),
                description |-> JStr("Create responsive product grid layout"),
                priority |-> JStr("high"),
                effort |-> JStr("4 days"),
                acceptance_criteria |->
                  << JStr("Products display in responsive grid"),
                    JStr("Each product shows image, title, and price"),
                    JStr("Grid adapts to different screen sizes") >> ],
              [ title |-> JStr("Search Functionality"),
                description |-> JStr("Implement product search with filters"),
                priority |-> JStr("medium"),
                effort |-> JStr("3 days"),
                acceptance_criteria |->
                  << JStr("Users can search products by name"),
                    JStr("Filter by category, price, and rating"),
                    JStr("Search results update in real-time") >> ] >> ] >> ],
      [ title |-> JStr("Shopping Cart"),
        description |-> JStr("Cart management and checkout process"),
        features |-> <<
          [ title |-> JStr("Cart Management"),
            description |-> JStr("Add, remove, and update cart items"),
            tasks |-> <<
              [ title |-> JStr("Add to Cart"),
                description |-> JStr("Allow users to add products to cart"),
                priority |-> JStr("high"),
                effort |-> JStr("2 days"),
                acceptance_criteria |->
                  << JStr("Users can add products to cart"),
                    JStr("Cart quantity is updated"),
                    JStr("Cart persists across sessions") >> ],
              [ title |-> JStr("Cart Review"),
                description |-> JStr("Display cart contents and totals"),
                priority |-> JStr("medium"),
                effort |-> JStr("3 days"),
                acceptance_criteria |->
                  << JStr("Cart shows all added items"),
                    JStr("Subtotal, tax, and total are calculated"),
                    JStr("Users can modify quantities or remove items") >> ] >> ] >> ],
      [ title |-> JStr("Infrastructure & Technical"),
        description |-> JStr("Technical infrastructure and non-functional requirements"),
        features |-> <<
          [ title |-> JStr("Security & Performance"),
            description |-> JStr("Security measures and performance optimization"),
            tasks |-> <<
              [ title |-> JStr("Set up SSL/TLS encryption"),
                description |-> JStr("Implement secure communication protocols for all transactions"),
                priority |-> JStr("high"),
                effort |-> JStr("2 days"),
                acceptance_criteria |->
                  << JStr("All data transmission is encrypted with TLS 1.3"),
                    JStr("SSL certificate is properly configured and auto-renewed"),
                    JStr("Security headers (HSTS, CSP) are implemented") >> ],
              [ title |-> JStr("Implement API rate limiting"),
                description |-> JStr("Protect against abuse and ensure fair usage of resources"),
                priority |-> JStr("medium"),
                effort |-> JStr("3 days"),
                acceptance_criteria |->
                  << JStr("Rate limits are enforced per user/IP (100 requests/minute)"),
                    JStr("Graceful handling of rate limit exceeded with proper error messages"),
                    JStr("Monitoring and alerting for rate limit violations") >> ],
              [ title |-> JStr("Set up monitoring and alerting"),
                description |-> JStr("Monitor system health, performance, and business metrics"),
                priority |-> JStr("medium"),
                effort |-> JStr("4 days"),
                acceptance_criteria |->
                  << JStr("Real-time monitoring of key metrics (response time, error rate, throughput)"),
                    JStr("Automated alerts for critical issues (downtime, high error rates)"),
                    JStr("Performance dashboards are available for stakeholders") >> ] >> ],
          [ title |-> JStr("Data Management"),
            description |-> JStr("Database and data handling infrastructure"),
            tasks |-> <<
              [ title |-> JStr("Design scalable database architecture"),
                description |-> JStr("Create robust database design for horizontal scaling"),
                priority |-> JStr("high"),
                effort |-> JStr("5 days"),
                acceptance_criteria |->
                  << JStr("Database supports horizontal scaling with read replicas"),
                    JStr("Proper indexing strategy for optimal query performance"),
                    JStr("Data backup and recovery procedures with 99.9% uptime SLA") >> ],
              [ title |-> JStr("Implement caching strategy"),
                description |-> JStr("Improve performance with intelligent caching layers"),
                priority |-> JStr("medium"),
                effort |-> JStr("3 days"),
                acceptance_criteria |->
                  << JStr("Redis cache is properly configured for session and data caching"),
                    JStr("Cache invalidation strategy is implemented for data consistency"),
                    JStr("Performance improvement is measurable (50% reduction in response time)") >> ],
              [ title |-> JStr("Set up automated security scanning"),
                description |-> JStr("Implement continuous security vulnerability assessment"),
                priority |-> JStr("medium"),
                effort |-> JStr("2 days"),
                acceptance_criteria |->
                  << JStr("Automated security scans run daily"),
                    JStr("Vulnerability reports are generated and sent to security team"),
                    JStr("Integration with CI/CD pipeline for security checks") >> ] >> ] >> ] >> ]

\* part_000:335-461  private generateSocialNetworkStoryMap(): StoryMapYAML
generateSocialNetworkStoryMap ==
  [ title |-> JStr("Social Network Platform"),
    description |->
      JChars(<<"A", " ", "s", "o", "c", "i", "a", "l", " ", "n", "e", "t", "w", "o", "r", "k", "i",
        "n", "g", " ", "p", "l", "a", "t", "f", "o", "r", "m", " ", "f", "o", "r", " ", "c",
        "o", "n", "n", "e", "c", "t", "i", "n", "g", " ", "p", "e", "o", "p", "l", "e">>),
    epics |-> <<
      [ title |-> JStr("User Profiles"),
        description |-> JStr("User profile creation and management"),
        features |-> <<
          [ title |-> JStr("Profile Creation"),
            description |-> JStr("Users can create and edit their profiles"),
            tasks |-> <<
              [ title |-> JStr("Profile Setup"),
                description |-> JStr("Create profile setup wizard"),
                priority |-> JStr("high"),
                effort |-> JStr("4 days"),
                acceptance_criteria |->
                  << JStr("Users can upload profile picture"),
                    JStr("Bio and personal information can be added"),
                    JStr("Profile is publicly viewable") >> ] >> ] >> ],
      [ title |-> JStr("Content Sharing"),
        description |-> JStr("Post and share content with connections"),
        features |-> <<
          [ title |-> JStr("Post Creation"),
            description |-> JStr("Create and share posts with text and media"),
            tasks |-> <<
              [ title |-> JStr("Text Posts"),
                description |-> JStr("Allow users to create text-based posts"),
                priority |-> JStr("high"),
                effort |-> JStr("3 days"),
                acceptance_criteria |->
                  << JStr("Users can write and publish text posts"),
                    JStr("Posts support basic formatting"),
                    JStr("Posts appear in user's feed") >> ] >> ] >> ],
      [ title |-> JStr("Infrastructure & Technical"),
        description |-> JStr("Technical infrastructure and non-functional requirements"),
        features |-> <<
          [ title |-> JStr("Security & Performance"),
            description |-> JStr("Security measures and performance optimization"),
            tasks |-> <<
              [ title |-> JStr("Implement user authentication framework"),
                description |-> JStr("Set up secure user authentication and authorization"),
                priority |-> JStr("high"),
                effort |-> JStr("3 days"),
                acceptance_criteria |->
                  << JStr("OAuth 2.0 authentication is implemented"),
                    JStr("Role-based access control (RBAC) is configured"),
                    JStr("Session management with secure token handling") >> ],
              [ title |-> JStr("Set up content moderation system"),
                description |-> JStr("Implement automated content filtering and moderation"),
                priority |-> JStr("medium"),
                effort |-> JStr("4 days"),
                acceptance_criteria |->
                  << JStr("Automated content filtering for inappropriate content"),
                    JStr("Manual moderation tools for admin users"),
                    JStr("Appeal process for flagged content") >> ],
              [ title |-> JStr("Implement real-time notifications"),
                description |-> JStr("Set up WebSocket-based real-time notification system"),
                priority |-> JStr("medium"),
                effort |-> JStr("3 days"),
                acceptance_criteria |->
                  << JStr("Real-time notifications for new connections and messages"),
                    JStr("Push notifications for mobile devices"),
                    JStr("Notification preferences can be customized") >> ] >> ],
          [ title |-> JStr("Data Management"),
            description |-> JStr("Database and data handling infrastructure"),
            tasks |-> <<
              [ title |-> JStr("Design scalable media storage"),
                description |-> JStr("Implement scalable storage for user uploads and media"),
                priority |-> JStr("high"),
                effort |-> JStr("4 days"),
                acceptance_criteria |->
                  << JStr("CDN integration for fast media delivery"),
                    JStr("Image optimization and compression"),
                    JStr("Backup and redundancy for media files") >> ],
              [ title |-> JStr("Implement search functionality"),
                description |-> JStr("Set up full-text search for users and content"),
                priority |-> JStr("medium"),
                effort |-> JStr("3 days"),
                acceptance_criteria |->
                  << JStr("Elasticsearch integration for fast search"),
                    JStr("Search results include users, posts, and comments"),
                    JStr("Search suggestions and autocomplete functionality") >> ] >> ] >> ] >> ]

\* part_000:463-589  private generateTaskManagementStoryMap(): StoryMapYAML
generateTaskManagementStoryMap ==
  [ title |-> JStr("Task Management System"),
    description |->
      JChars(<<"A", " ", "c", "o", "m", "p", "r", "e", "h", "e", "n", "s", "i", "v", "e", " ", "t",
        "a", "s", "k", " ", "a", "n", "d", " ", "p", "r", "o", "j", "e", "c", "t", " ", "m",
        "a", "n", "a", "g", "e", "m", "e", "n", "t", " ", "p", "l", "a", "t", "f", "o", "r",
        "m">>),
    epics |-> <<
      [ title |-> JStr("Task Creation"),
        description |-> JStr("Create and manage individual tasks"),
        features |-> <<
          [ title |-> JStr("Task Setup"),
            description |-> JStr("Create new tasks with details and assignments"),
            tasks |-> <<
              [ title |-> JStr("Task Form"),
                description |-> JStr("Create task creation form with all fields"),
                priority |-> JStr("high"),
                effort |-> JStr("3 days"),
                acceptance_criteria |->
                  << JStr("Form includes title, description, and due date"),
                    JStr("Users can assign tasks to team members"),
                    JStr("Priority levels can be set") >> ] >> ] >> ],
      [ title |-> JStr("Project Organization"),
        description |-> JStr("Organize tasks into projects and categories"),
        features |-> <<
          [ title |-> JStr("Project Management"),
            description |-> JStr("Create and manage project structures"),
            tasks |-> <<
              [ title |-> JStr("Project Creation"),
                description |-> JStr("Allow users to create new projects"),
                priority |-> JStr("high"),
                effort |-> JStr("2 days"),
                acceptance_criteria |->
                  << JStr("Users can create new projects"),
                    JStr("Projects can have multiple tasks"),
                    JStr("Project progress is tracked") >> ] >> ] >> ],
      [ title |-> JStr("Infrastructure & Technical"),
        description |-> JStr("Technical infrastructure and non-functional requirements"),
        features |-> <<
          [ title |-> JStr("Security & Performance"),
            description |-> JStr("Security measures and performance optimization"),
            tasks |-> <<
              [ title |-> JStr("Set up role-based access control"),
                description |-> JStr("Implement granular permissions for different user roles"),
                priority |-> JStr("high"),
                effort |-> JStr("3 days"),
                acceptance_criteria |->
                  << JStr("Admin, manager, and user roles are defined"),
                    JStr("Permissions are granular and configurable"),
                    JStr("Access control is enforced at API and UI levels") >> ],
              [ title |-> JStr("Implement audit logging"),
                description |-> JStr("Track all user actions for compliance and debugging"),
                priority |-> JStr("medium"),
                effort |-> JStr("2 days"),
                acceptance_criteria |->
                  << JStr("All user actions are logged with timestamps"),
                    JStr("Audit logs are searchable and exportable"),
                    JStr("Sensitive operations trigger additional logging") >> ],
              [ title |-> JStr("Set up automated backups"),
                description |-> JStr("Implement reliable data backup and recovery procedures"),
                priority |-> JStr("high"),
                effort |-> JStr("2 days"),
                acceptance_criteria |->
                  << JStr("Daily automated backups to secure location"),
                    JStr("Backup restoration process is tested monthly"),
                    JStr("Data retention policy is implemented") >> ] >> ],
          [ title |-> JStr("Data Management"),
            description |-> JStr("Database and data handling infrastructure"),
            tasks |-> <<
              [ title |-> JStr("Design scalable database architecture"),
                description |-> JStr("Create robust database design for task management"),
                priority |-> JStr("high"),
                effort |-> JStr("4 days"),
                acceptance_criteria |->
                  << JStr("Database supports concurrent user access"),
                    JStr("Proper indexing for task queries and filtering"),
                    JStr("Data integrity constraints are enforced") >> ],
              [ title |-> JStr("Implement real-time collaboration"),
                description |-> JStr("Enable real-time updates for collaborative task management"),
                priority |-> JStr("medium"),
                effort |-> JStr("3 days"),
                acceptance_criteria |->
                  << JStr("WebSocket connections for real-time updates"),
                    JStr("Conflict resolution for simultaneous edits"),
                    JStr("Presence indicators show who's online") >> ] >> ] >> ] >> ]

\* The generic template without its enabling-work epic.
generateGenericStoryMap_plain(productDescription) ==
  [ title |-> JStr("Product Application"),
    description |-> JChars(productDescription),
    epics |-> <<
      [ title |-> JStr("Core Features"),
        description |-> JStr("Essential functionality for the application"),
        features |-> << >> ] >> ]

\* part_000:591-728  private generateGenericStoryMap(productDescription: string): StoryMapYAML
generateGenericStoryMap(productDescription) ==
  [ title |-> JStr("Product Application"),
    description |->
      JChars(productDescription),
    epics |-> <<
      [ title |-> JStr("Core Features"),
        description |-> JStr("Essential functionality for the application"),
        features |-> <<
          [ title |-> JStr("User Interface"),
            description |-> JStr("Main user interface and navigation"),
            tasks |-> <<
              [ title |-> JStr("Homepage Design"),
                description |-> JStr("Create the main landing page"),
                priority |-> JStr("high"),
                effort |-> JStr("5 days"),
                acceptance_criteria |->
                  << JStr("Page loads quickly and is responsive"),
                    JStr("Navigation is intuitive and accessible"),
                    JStr("Content is well-organized and readable") >> ],
              [ title |-> JStr("User Authentication"),
                description |-> JStr("Implement user login and registration"),
                priority |-> JStr("high"),
                effort |-> JStr("4 days"),
                acceptance_criteria |->
                  << JStr("Users can register new accounts"),
                    JStr("Secure login functionality"),
                    JStr("Password reset capability") >> ] >> ] >> ],
      [ title |-> JStr("Data Management"),
        description |-> JStr("Handle data storage and retrieval"),
        features |-> <<
          [ title |-> JStr("Database Design"),
            description |-> JStr("Design and implement database structure"),
            tasks |-> <<
              [ title |-> JStr("Schema Design"),
                description |-> JStr("Create database schema for the application"),
                priority |-> JStr("high"),
                effort |-> JStr("3 days"),
                acceptance_criteria |->
                  << JStr("Database supports all required data types"),
                    JStr("Relationships are properly defined"),
                    JStr("Indexes are optimized for performance") >> ] >> ] >> ],
      [ title |-> JStr("Infrastructure & Technical"),
        description |-> JStr("Technical infrastructure and non-functional requirements"),
        features |-> <<
          [ title |-> JStr("Security & Performance"),
            description |-> JStr("Security measures and performance optimization"),
            tasks |-> <<
              [ title |-> JStr("Set up CI/CD pipeline"),
                description |-> JStr("Implement automated testing and deployment pipeline"),
                priority |-> JStr("high"),
                effort |-> JStr("3 days"),
                acceptance_criteria |->
                  << JStr("Automated testing runs on every commit"),
                    JStr("Deployment is automated and rollback-capable"),
                    JStr("Environment-specific configurations are managed") >> ],
              [ title |-> JStr("Implement security scanning"),
                description |-> JStr("Set up automated security vulnerability assessment"),
                priority |-> JStr("medium"),
                effort |-> JStr("2 days"),
                acceptance_criteria |->
                  << JStr("Automated security scans run daily"),
                    JStr("Vulnerability reports are generated"),
                    JStr("Integration with CI/CD pipeline") >> ],
              [ title |-> JStr("Set up monitoring and alerting"),
                description |-> JStr("Monitor application health and performance"),
                priority |-> JStr("medium"),
                effort |-> JStr("3 days"),
                acceptance_criteria |->
                  << JStr("Real-time monitoring of key metrics"),
                    JStr("Automated alerts for critical issues"),
                    JStr("Performance dashboards are available") >> ] >> ],
          [ title |-> JStr("Data Management"),
            description |-> JStr("Database and data handling infrastructure"),
            tasks |-> <<
              [ title |-> JStr("Design scalable database architecture"),
                description |-> JStr("Create robust database design for the application"),
                priority |-> JStr("high"),
                effort |-> JStr("4 days"),
                acceptance_criteria |->
                  << JStr("Database supports horizontal scaling"),
                    JStr("Proper indexing for optimal performance"),
                    JStr("Data backup and recovery procedures") >> ],
              [ title |-> JStr("Implement caching strategy"),
                description |-> JStr("Improve performance with intelligent caching"),
                priority |-> JStr("medium"),
                effort |-> JStr("2 days"),
                acceptance_criteria |->
                  << JStr("Redis cache is properly configured"),
                    JStr("Cache invalidation strategy is implemented"),
                    JStr("Performance improvement is measurable") >> ] >> ] >> ] >> ]

\* The mock generator with the lower-casing left out.
generateMockStoryMap_caseSensitive(d) ==
  IF includes(d, KwEcommerce) \/ includes(d, KwShop) \/ includes(d, KwStore)
    THEN generateEcommerceStoryMap
  ELSE IF includes(d, KwSocial) \/ includes(d, KwNetwork)
    THEN generateSocialNetworkStoryMap
  ELSE IF includes(d, KwTask) \/ includes(d, KwTodo)
    THEN generateTaskManagementStoryMap
  ELSE generateGenericStoryMap(d)

\* The mock generator handing the lower-cased copy to the generic template.
generateMockStoryMap_keywords(d) ==
  LET keywords == toLowerCase(d) IN
  IF includes(keywords, KwEcommerce) \/ includes(keywords, KwShop)
       \/ includes(keywords, KwStore)
    THEN generateEcommerceStoryMap
  ELSE IF includes(keywords, KwSocial) \/ includes(keywords, KwNetwork)
    THEN generateSocialNetworkStoryMap
  ELSE IF includes(keywords, KwTask) \/ includes(keywords, KwTodo)
    THEN generateTaskManagementStoryMap
  ELSE generateGenericStoryMap(keywords)

\* part_000:108-121  private generateMockStoryMap(productDescription)
generateMockStoryMap(d) ==
  LET keywords == toLowerCase(d) IN
  IF includes(keywords, KwEcommerce) \/ includes(keywords, KwShop)
       \/ includes(keywords, KwStore)
    THEN generateEcommerceStoryMap
  ELSE IF includes(keywords, KwSocial) \/ includes(keywords, KwNetwork)
    THEN generateSocialNetworkStoryMap
  ELSE IF includes(keywords, KwTask) \/ includes(keywords, KwTodo)
    THEN generateTaskManagementStoryMap
  ELSE generateGenericStoryMap(d)

-----------------------------------------------------------------------------
(* Product descriptions: concatenations of a few fragments, so that a       *)
(* keyword can appear in any letter case, split across fragments, next to   *)
(* another category's keyword, or not at all.                               *)

MaxFragments == 2

Fragments ==
  { << "S", "h", "o", "p" >>,
    << "S", "H", "O", "P" >>,
    << "s", "t", "o" >>,
    << "r", "e" >>,
    << "E", "c", "o", "m", "m", "e", "r", "c", "e" >>,
    << "s", "o", "c", "i", "a", "l" >>,
    << "N", "e", "t", "W", "o", "r", "k" >>,
    << "T", "A", "S", "K" >>,
    << "t", "o", "d", "o" >>,
    << "B", "l", "o", "g" >>,
    << " " >> }

RECURSIVE Concatenations(_)
Concatenations(n) ==
  IF n = 0 THEN { << >> }
  ELSE Concatenations(n - 1)
         \cup { d \o f : d \in Concatenations(n - 1), f \in Fragments }

Descriptions == Concatenations(MaxFragments)

\* The value of a result variable before the operation has returned.
NotCalled == [pending |-> TRUE]

-----------------------------------------------------------------------------
(* Outcomes of a call that may throw, and property access on JS values.     *)

Ok(v) == [ok |-> TRUE, value |-> v]
Throw(message) == [ok |-> FALSE, error |-> message]

Nullish(x) == x.t = "undefined" \/ x.t = "null"

\* x.f for a non-nullish x: an own property of an object, else undefined.
Get(x, f) ==
  IF x.t = "object" /\ f \in DOMAIN x.v THEN x.v[f] ELSE JUndefined

\* x?.f
OptGet(x, f) == IF Nullish(x) THEN JUndefined ELSE Get(x, f)

\* x?.[0]
OptFirst(x) ==
  IF Nullish(x) THEN JUndefined
  ELSE IF x.t = "array" /\ Len(x.v) >= 1 THEN x.v[1]
  ELSE JUndefined

\* x || d
OrElse(x, d) == IF Truthy(x) THEN x ELSE d

\* The outcomes of mapping a throwing callback over a sequence: the first
\* exception, else the sequence of the values.
MapAll(rs) ==
  IF \E i \in DOMAIN rs : ~rs[i].ok
    THEN rs[CHOOSE i \in DOMAIN rs :
              ~rs[i].ok /\ \A j \in DOMAIN rs : (j < i) => rs[j].ok]
    ELSE Ok([i \in DOMAIN rs |-> rs[i].value])

\* An error is the sequence of the parts of its message.
TypeError == << "TypeError" >>

-----------------------------------------------------------------------------
(* GeminiService (part_000:798-1023).                                       *)

\* What reading import.meta.env.VITE_*_API_KEY can do.
EnvThrows == [t |-> "throws"]

\* part_000:802-811  constructor: apiKey = env || '', '' when the read throws
GeminiService(envKey) ==
  IF envKey.t = "throws" THEN [apiKey |-> JStr("")]
  ELSE [apiKey |-> OrElse(envKey, JStr(""))]

\* isConfigured() testing the credential against undefined only.
isConfigured_defined(service) == Ok(service.apiKey.t # "undefined")

\* part_000:1015-1022  isConfigured(): !!this.apiKey. Reading the field does
\* not throw, so the catch branch (return false) is never taken.
isConfigured(service) == Ok(Truthy(service.apiKey))

\* part_000:999-1007  the task callback
normalizeTask(task) ==
  IF Nullish(task) THEN Throw(TypeError)
  ELSE Ok([ title |-> OrElse(Get(task, "title"), JStr("Untitled Task")),
            description |-> OrElse(Get(task, "description"), JStr("")),
            priority |-> OrElse(Get(task, "priority"), JStr("medium")),
            effort |-> OrElse(Get(task, "effort"), JStr("2 days")),
            acceptance_criteria |->
              IF isArray(Get(task, "acceptance_criteria"))
                THEN Get(task, "acceptance_criteria").v
                ELSE << JStr("Acceptance criteria not specified") >> ])

\* part_000:999  (feature.tasks || []).map(...): a truthy value that is no
\* array has no map method.
normalizeTasks(x) ==
  LET list == OrElse(x, JArr(<< >>)) IN
  IF ~isArray(list) THEN Throw(TypeError)
  ELSE MapAll([i \in DOMAIN list.v |-> normalizeTask(list.v[i])])

\* part_000:996-1008  the feature callback
normalizeFeature(feature) ==
  IF Nullish(feature) THEN Throw(TypeError)
  ELSE LET tasks == normalizeTasks(Get(feature, "tasks")) IN
       IF ~tasks.ok THEN tasks
       ELSE Ok([ title |-> OrElse(Get(feature, "title"), JStr("Untitled Feature")),
                 description |-> OrElse(Get(feature, "description"), JStr("")),
                 tasks |-> tasks.value ])

\* part_000:996  (epic.features || []).map(...)
normalizeFeatures(x) ==
  LET list == OrElse(x, JArr(<< >>)) IN
  IF ~isArray(list) THEN Throw(TypeError)
  ELSE MapAll([i \in DOMAIN list.v |-> normalizeFeature(list.v[i])])

\* part_000:993-1009  the epic callback
normalizeEpic(epic) ==
  IF Nullish(epic) THEN Throw(TypeError)
  ELSE LET features == normalizeFeatures(Get(epic, "features")) IN
       IF ~features.ok THEN features
       ELSE Ok([ title |-> OrElse(Get(epic, "title"), JStr("Untitled Epic")),
                 description |-> OrElse(Get(epic, "description"), JStr("")),
                 features |-> features.value ])

\* part_000:983-1013 with the basic validation (985-987) left out.
validateAndTransformResponse_lenient(response) ==
  IF Nullish(response) THEN Throw(TypeError)
  ELSE LET list == IF isArray(Get(response, "epics"))
                     THEN Get(response, "epics").v ELSE << >>
           epics == MapAll([i \in DOMAIN list |-> normalizeEpic(list[i])])
       IN IF ~epics.ok THEN epics
          ELSE Ok([ title |-> Get(response, "title"),
                    description |-> Get(response, "description"),
                    epics |-> epics.value ])

\* part_000:983-1013  validateAndTransformResponse(response)
validateAndTransformResponse(response) ==
  IF Nullish(response) THEN Throw(TypeError)
  ELSE IF ~Truthy(Get(response, "title")) \/ ~Truthy(Get(response, "description"))
          \/ ~isArray(Get(response, "epics"))
    THEN Throw(<< "Invalid response structure from Gemini API" >>)
  ELSE LET epics == MapAll([i \in DOMAIN Get(response, "epics").v |->
                              normalizeEpic(Get(response, "epics").v[i])]) IN
       IF ~epics.ok THEN epics
       ELSE Ok([ title |-> Get(response, "title"),
                 description |-> Get(response, "description"),
                 epics |-> epics.value ])

\* The reply text of a provider, as the sequence of its lexical pieces: "{",
\* "}", a member list that is well-formed JSON (a key of ParsedMembers), or
\* any other piece of prose.
\* part_000:969  content.match(/\{[\s\S]*\}/): the leftmost "{" up to the last
\* "}" after it, null when there is none.
match(content) ==
  LET opens == { i \in DOMAIN content : content[i] = "{" } IN
  IF opens = {} THEN JNull
  ELSE LET first == CHOOSE i \in opens : \A k \in opens : i <= k
           closes == { j \in DOMAIN content : j > first /\ content[j] = "}" }
       IN IF closes = {} THEN JNull
          ELSE LET last == CHOOSE j \in closes : \A k \in closes : k <= j
               IN JArr(<< SubSeq(content, first, last) >>)

\* The objects the well-formed member lists of a reply denote.
ParsedMembers ==
  [ full |->
      JObj([ title |-> JStr("AI Shop"),
             description |-> JChars(<< "a", "i" >>),
             epics |-> JArr(<<
               JObj([ title |-> JStr("Checkout"),
                      description |-> JStr("Paying for an order"),
                      features |-> JArr(<<
                        JObj([ title |-> JStr("Payment"),
                               description |-> JStr("Card payment"),
                               tasks |-> JArr(<<
                                 JObj([ title |-> JStr("Pay by card"),
                                        description |-> JStr("Charge the card"),
                                        priority |-> JStr("high"),
                                        effort |-> JStr("1 day"),
                                        acceptance_criteria |->
                                          JArr(<< JStr("Card is charged") >>) ])
                               >>) ])
                      >>) ])
             >>) ]),
    sparse |->
      JObj([ title |-> JStr("AI Shop"),
             description |-> JChars(<< "a", "i" >>),
             epics |-> JArr(<< JObj([ features |-> JArr(<< JObj([ tasks |->
                         JArr(<< JObj([ priority |-> JStr("urgent") ]) >>) ]) >>) ]) >>) ]),
    untitled |->
      JObj([ description |-> JChars(<< "a", "i" >>), epics |-> JArr(<< >>) ]),
    undescribed |->
      JObj([ title |-> JStr("AI Shop"), epics |-> JArr(<< >>) ]),
    listless |->
      JObj([ title |-> JStr("AI Shop"),
             description |-> JChars(<< "a", "i" >>),
             epics |-> JStr("none") ]),
    nullEpic |->
      JObj([ title |-> JStr("AI Shop"),
             description |-> JChars(<< "a", "i" >>),
             epics |-> JArr(<< JNull >>) ]) ]

SyntaxError == << "SyntaxError" >>

\* part_000:974  JSON.parse(jsonMatch[0]): an object is "{" members "}" or "{}".
JSONparse(text) ==
  IF Len(text) = 3 /\ text[1] = "{" /\ text[3] = "}"
       /\ text[2] \in DOMAIN ParsedMembers
    THEN Ok(ParsedMembers[text[2]])
  ELSE IF text = << "{", "}" >> THEN Ok(JObj(<< >>))
  ELSE Throw(SyntaxError)

\* part_000:813-816 with the credential check left out.
GeminiCheckKey_skipped(service) == Ok(TRUE)

\* part_000:813-816  the credential check at the head of generateStoryMap
GeminiCheckKey(service) ==
  IF ~Truthy(service.apiKey)
    THEN Throw(<< "Gemini API key not found" >>)
    ELSE Ok(TRUE)

\* part_000:961-975  from the awaited response.json() to the returned value
GeminiReadReply(json) ==
  IF ~json.ok THEN json
  ELSE IF Nullish(json.value) THEN Throw(TypeError)
  ELSE
    LET content ==
          OptGet(OptFirst(OptGet(OptGet(OptFirst(Get(json.value, "candidates")),
                                        "content"), "parts")), "text")
    IN IF ~Truthy(content) THEN Throw(<< "No response content from Gemini API" >>)
       ELSE IF content.t # "string" THEN Throw(TypeError)
       ELSE LET jsonMatch == match(content.c) IN
            IF jsonMatch.t = "null"
              THEN Throw(<< "No valid JSON found in Gemini response" >>)
            ELSE LET parsed == JSONparse(jsonMatch.v[1]) IN
                 IF ~parsed.ok THEN parsed
                 ELSE validateAndTransformResponse(parsed.value)

\* part_000:977-980  the client's catch: log, then throw a new Error
GeminiRethrow(error) == Throw(<< "Failed to generate story map" >> \o error)

-----------------------------------------------------------------------------
(* DeepSeekService. Its source file is not part of the sources at hand; it  *)
(* is given the contract that section 4.1 of the specification gives every  *)
(* provider client, which is the one GeminiService implements.              *)

DeepSeekService(envKey) == GeminiService(envKey)
DeepSeekIsConfigured(service) == isConfigured(service)
DeepSeekCheckKey(service) ==
  IF ~Truthy(service.apiKey)
    THEN Throw(<< "DeepSeek API key not found" >>)
    ELSE Ok(TRUE)
DeepSeekReadReply(json) == GeminiReadReply(json)
DeepSeekRethrow(error) == GeminiRethrow(error)
-----------------------------------------------------------------------------
(* AIService (part_000:39-121).                                             *)

MaxCalls == 2

CallIds == 1..MaxCalls

\* part_000:37  AIProvider, and a selector outside the type for the default case
Providers == { "deepseek", "gemini", "mock", "openai" }

\* The descriptions the generateStoryMap invocations are given: one for each
\* template, and one that matches two keyword sets.
ServiceDescriptions ==
  { << "S", "H", "O", "P" >>,
    << "s", "o", "c", "i", "a", "l" >>,
    << "t", "o", "d", "o" >>,
    << "B", "l", "o", "g" >>,
    << "S", "h", "o", "p", " ", "t", "o", "d", "o" >> }

\* What the environment holds for a credential: reading it throws, it is
\* undefined, it is the empty string, or it is a key.
EnvValues == { EnvThrows, JUndefined, JStr(""), JStr("sk-key") }
DeepSeekEnvValues == { JUndefined, JStr("sk-deepseek") }

NoInstance == JUndefined

\* Objects are told apart by the order of their construction, class by class.
NoneConstructed == [AIService |-> 0, DeepSeekService |-> 0, GeminiService |-> 0]

\* part_000:44-47  private constructor(): the new orchestrator holds one new
\* client of each class.
AIServiceConstructor ==
  [ id |-> constructed.AIService + 1,
    deepseekService |-> DeepSeekService(env.deepseek),
    geminiService |-> GeminiService(env.gemini) ]

\* A generateStoryMap invocation: where it is suspended, its arguments, what
\* it has logged and its settled value; and, as history, the client whose
\* generateStoryMap it invoked, the HTTP requests that client issued, the
\* value that client's promise settled with and whether the delay elapsed.
IdleCall ==
  [ pc |-> "idle",
    productDescription |-> << >>,
    provider |-> "mock",
    client |-> "none",
    requests |-> 0,
    clientResult |-> NotCalled,
    delayed |-> FALSE,
    log |-> << >>,
    result |-> NotCalled ]

LogEntry(level, text, detail) == [level |-> level, text |-> text, detail |-> detail]

\* part_000:64, 72, 79, 84  return this.generateMockStoryMap(productDescription)
ReturnMock(call) ==
  [call EXCEPT !.pc = "done",
               !.result = Ok(generateMockStoryMap(call.productDescription))]

\* part_000:81-85 with the handler left out: the error rejects the promise.
CatchError_rethrow(call, error) ==
  [call EXCEPT !.pc = "rejected", !.result = Throw(error)]

\* part_000:81-85 with the fallback content not chosen by the description.
CatchError_generic(call, error) ==
  [call EXCEPT !.pc = "done",
               !.result = Ok(generateGenericStoryMap(call.productDescription))]

\* part_000:81-85 with the fallback taken through the delay of line 78.
CatchError_delayed(call, error) ==
  [call EXCEPT !.pc = "delay",
               !.log = @ \o << LogEntry("error", "Error generating story map with",
                                        << call.provider >> \o error) >>]

\* part_000:81-85  catch (error): log with the provider, return mock content
CatchError(call, error) ==
  ReturnMock([call EXCEPT !.log =
    @ \o << LogEntry("error", "Error generating story map with",
                     << call.provider >> \o error) >>])

\* part_000:60-61, 68-69  this.deepseekService / this.geminiService
ServiceOf(kind) ==
  IF kind = "deepseek" THEN instance.deepseekService ELSE instance.geminiService

ClientIsConfigured(kind) ==
  IF kind = "deepseek" THEN DeepSeekIsConfigured(ServiceOf(kind))
  ELSE isConfigured(ServiceOf(kind))

ClientCheckKey(kind) ==
  IF kind = "deepseek" THEN DeepSeekCheckKey(ServiceOf(kind))
  ELSE GeminiCheckKey(ServiceOf(kind))

ClientReadReply(kind, json) ==
  IF kind = "deepseek" THEN DeepSeekReadReply(json) ELSE GeminiReadReply(json)

ClientRethrow(kind, error) ==
  IF kind = "deepseek" THEN DeepSeekRethrow(error) ELSE GeminiRethrow(error)

\* part_000:977-980 then 81-85: the client logs and rethrows, its promise
\* rejects inside the orchestrator's try.
ClientFails(call, error) ==
  LET rethrown == ClientRethrow(call.client, error) IN
  CatchError([call EXCEPT !.clientResult = rethrown,
                          !.log = @ \o << LogEntry("error", "API error:", error) >>],
             rethrown.error)

\* part_000:813-954  the client's generateStoryMap up to the awaited fetch
ClientInvoke(call, kind) ==
  LET invoked == [call EXCEPT !.client = kind]
      checked == ClientCheckKey(kind)
  IN IF ~checked.ok
       THEN CatchError([invoked EXCEPT !.clientResult = checked], checked.error)
       ELSE [invoked EXCEPT !.pc = "fetch", !.requests = @ + 1]

\* part_000:59-73 with the isConfigured test left out.
ViaClient_unchecked(call, kind) == ClientInvoke(call, kind)

\* part_000:59-73  case 'deepseek' / case 'gemini'
ViaClient(call, kind) ==
  LET configured == ClientIsConfigured(kind) IN
  IF ~configured.ok THEN CatchError(call, configured.error)
  ELSE IF configured.value THEN ClientInvoke(call, kind)
  ELSE ReturnMock([call EXCEPT !.log =
         @ \o << LogEntry("warn", "not configured, falling back to mock data",
                          << kind >>) >>])

\* part_000:56-80 with the timer of line 78 not awaited.
generateStoryMap_unawaited(call) ==
  CASE call.provider = "deepseek" -> ViaClient(call, "deepseek")
    [] call.provider = "gemini" -> ViaClient(call, "gemini")
    [] OTHER -> ReturnMock(call)

\* part_000:56-80  generateStoryMap up to its first suspension
generateStoryMap(call) ==
  CASE call.provider = "deepseek" -> ViaClient(call, "deepseek")
    [] call.provider = "gemini" -> ViaClient(call, "gemini")
    [] OTHER -> [call EXCEPT !.pc = "delay"]

\* part_000:88-106 with the Gemini flag not read from the client.
getAvailableProviders_constant ==
  Ok(<< [provider |-> "deepseek",
         configured |-> DeepSeekIsConfigured(instance.deepseekService).value,
         name |-> "DeepSeek"],
        [provider |-> "gemini", configured |-> TRUE, name |-> "Google Gemini"],
        [provider |-> "mock", configured |-> TRUE, name |-> "Mock Data (Demo)"] >>)

\* part_000:88-106  getAvailableProviders()
getAvailableProviders ==
  LET deepseek == DeepSeekIsConfigured(instance.deepseekService)
      gemini == isConfigured(instance.geminiService)
  IN IF ~deepseek.ok THEN deepseek
     ELSE IF ~gemini.ok THEN gemini
     ELSE Ok(<< [provider |-> "deepseek", configured |-> deepseek.value,
                 name |-> "DeepSeek"],
                [provider |-> "gemini", configured |-> gemini.value,
                 name |-> "Google Gemini"],
                [provider |-> "mock", configured |-> TRUE,
                 name |-> "Mock Data (Demo)"] >>)

-----------------------------------------------------------------------------
(* What the transport can deliver.                                          *)

\* fetch rejects, or resolves with a response of some status.
FetchOutcomes ==
  { [kind |-> "rejected", status |-> "none"],
    [kind |-> "response", status |-> "200"],
    [kind |-> "response", status |-> "401"],
    [kind |-> "response", status |-> "500"] }

\* part_000:956  response.ok: a status in 200..299
ResponseOk(outcome) == outcome.status = "200"

\* The body of a Gemini reply whose first candidate holds the text.
Reply(text) ==
  JObj([ candidates |-> JArr(<<
           JObj([ content |-> JObj([ parts |-> JArr(<<
                    JObj([ text |-> JChars(text) ]) >>) ]) ]) >>) ])

ReplyTexts ==
  { << >>,
    << "Sure, here it is" >>,
    << "{", "full", "}" >>,
    << "Here is the map:", "{", "sparse", "}", "Enjoy" >>,
    << "{", "full", "}", "or", "{", "sparse", "}" >>,
    << "{", "untitled", "}" >>,
    << "{", "undescribed", "}" >>,
    << "{", "listless", "}" >>,
    << "{", "nullEpic", "}" >>,
    << "{", "Sorry", "}" >> }

\* What the awaited response.json() settles with: a rejection when the body
\* is no JSON, else the parsed body.
JsonOutcomes ==
  { Throw(SyntaxError), Ok(JNull), Ok(JObj(<< >>)) }
    \cup { Ok(Reply(text)) : text \in ReplyTexts }

-----------------------------------------------------------------------------
(* A GeminiService used on its own: its generateStoryMap as its callers see *)
(* it, with the promise it returns rejected by what it throws.              *)

NoService == JUndefined

\* An invocation of the client's generateStoryMap: where it is suspended, the
\* HTTP requests it has issued, what the transport delivered to it and the
\* value or error its promise settled with.
IdleDirect ==
  [ pc |-> "idle",
    requests |-> 0,
    fetched |-> NotCalled,
    body |-> NotCalled,
    result |-> NotCalled ]

\* part_000:813-954  generateStoryMap up to the awaited fetch: the missing
\* credential is thrown outside the try, the request is issued inside it.
GeminiGenerateStoryMap(client, call) ==
  LET checked == GeminiCheckKey(client) IN
  IF ~checked.ok
    THEN [call EXCEPT !.pc = "rejected", !.result = checked]
    ELSE [call EXCEPT !.pc = "fetch", !.requests = @ + 1]

\* part_000:977-980  catch (error): throw a new Error, which rejects
GeminiFails(call, error) ==
  [call EXCEPT !.pc = "rejected", !.result = GeminiRethrow(error)]

-----------------------------------------------------------------------------
(* The actions.                                                             *)

\* part_000:49-54 with the instance test left out: every call constructs.
GetInstance_always ==
  /\ instance' = AIServiceConstructor
  /\ constructed' = [class \in DOMAIN constructed |-> constructed[class] + 1]
  /\ returned' = returned \cup { instance'.id }
  /\ UNCHANGED << env, calls, providers, clientVars, mockVars, convVars,
                  normVars, replyVars >>

\* part_000:49-54  static getInstance(): the constructor (44-47) runs when
\* AIService.instance is unset; the instance is returned.
GetInstance ==
  /\ instance' = IF instance = NoInstance THEN AIServiceConstructor ELSE instance
  /\ constructed' =
       IF instance = NoInstance
         THEN [class \in DOMAIN constructed |-> constructed[class] + 1]
         ELSE constructed
  /\ returned' = returned \cup { instance'.id }
  /\ UNCHANGED << env, calls, providers, clientVars, mockVars, convVars,
                  normVars, replyVars >>

\* part_000:88-106  a caller asks for the providers
GetAvailableProviders ==
  /\ instance # NoInstance
  /\ providers' = getAvailableProviders
  /\ UNCHANGED << env, instance, constructed, returned, calls, clientVars,
                  mockVars, convVars, normVars, replyVars >>

\* part_000:56-80 with the invocations that are still suspended dropped when
\* a new one is made.
Generate_cancelling(c, d, p) ==
  /\ instance # NoInstance
  /\ calls[c].pc = "idle"
  /\ \A b \in CallIds : (b < c) => calls[b].pc # "idle"
  /\ calls' = [b \in CallIds |->
       IF b = c
         THEN generateStoryMap([IdleCall EXCEPT !.productDescription = d,
                                                !.provider = p])
       ELSE IF calls[b].pc \in { "delay", "fetch", "text", "json" }
         THEN ReturnMock(calls[b])
       ELSE calls[b]]
  /\ UNCHANGED << env, instance, constructed, returned, providers,
                  clientVars, mockVars, convVars, normVars, replyVars >>

\* part_000:56-80  a caller invokes generateStoryMap(d, p); it runs to its
\* first suspension or to its return. The invocations are numbered in the
\* order they are made.
Generate(c, d, p) ==
  /\ instance # NoInstance
  /\ calls[c].pc = "idle"
  /\ \A b \in CallIds : (b < c) => calls[b].pc # "idle"
  /\ calls' = [calls EXCEPT ![c] =
       generateStoryMap([IdleCall EXCEPT !.productDescription = d, !.provider = p])]
  /\ UNCHANGED << env, instance, constructed, returned, providers,
                  clientVars, mockVars, convVars, normVars, replyVars >>

\* part_000:78-79  the 2000 ms timer fires
TimerFires(c) ==
  /\ calls[c].pc = "delay"
  /\ calls' = [calls EXCEPT ![c] = ReturnMock([@ EXCEPT !.delayed = TRUE])]
  /\ UNCHANGED << env, instance, constructed, returned, providers,
                  clientVars, mockVars, convVars, normVars, replyVars >>

\* part_000:948-961  the fetch settles; a response's body is then awaited
FetchSettles(c, outcome) ==
  /\ calls[c].pc = "fetch"
  /\ calls' = [calls EXCEPT ![c] =
       IF outcome.kind = "rejected" THEN ClientFails(@, << "fetch failed" >>)
       ELSE IF ResponseOk(outcome) THEN [@ EXCEPT !.pc = "json"]
       ELSE [@ EXCEPT !.pc = "text"]]
  /\ UNCHANGED << env, instance, constructed, returned, providers,
                  clientVars, mockVars, convVars, normVars, replyVars >>

\* part_000:957-958  the error body of a non-success response has been read
TextSettles(c) ==
  /\ calls[c].pc = "text"
  /\ calls' = [calls EXCEPT ![c] = ClientFails(@, << "API error" >>)]
  /\ UNCHANGED << env, instance, constructed, returned, providers,
                  clientVars, mockVars, convVars, normVars, replyVars >>

\* part_000:961-980  response.json() settles and the reply is processed
JsonSettles(c, json) ==
  /\ calls[c].pc = "json"
  /\ calls' = [calls EXCEPT ![c] =
       LET reply == ClientReadReply(@.client, json) IN
       IF reply.ok THEN [@ EXCEPT !.pc = "done", !.clientResult = reply,
                                  !.result = reply]
       ELSE ClientFails(@, reply.error)]
  /\ UNCHANGED << env, instance, constructed, returned, providers,
                  clientVars, mockVars, convVars, normVars, replyVars >>

Init ==
  /\ env \in [deepseek : DeepSeekEnvValues, gemini : EnvValues]
  /\ instance = NoInstance
  /\ constructed = NoneConstructed
  /\ returned = {}
  /\ calls = [c \in CallIds |-> IdleCall]
  /\ providers = NotCalled
  /\ mockArg = << >>
  /\ mockResult = NotCalled
  /\ convArg = NotCalled
  /\ convResult = NotCalled
  /\ standalone = NoService
  /\ direct = [c \in CallIds |-> IdleDirect]
  /\ normArg = NotCalled
  /\ normResult = NotCalled
  /\ replyArg = << >>
  /\ replyResult = NotCalled

Next ==
  \/ GetInstance
  \/ GetAvailableProviders
  \/ \E c \in CallIds, d \in ServiceDescriptions, p \in Providers : Generate(c, d, p)
  \/ \E c \in CallIds : TimerFires(c)
  \/ \E c \in CallIds, outcome \in FetchOutcomes : FetchSettles(c, outcome)
  \/ \E c \in CallIds : TextSettles(c)
  \/ \E c \in CallIds, json \in JsonOutcomes : JsonSettles(c, json)

Spec == Init /\ [][Next]_vars

-----------------------------------------------------------------------------
(* The orchestrator under the scheduling of the event loop: a timer that is *)
(* set fires, a continuation whose promise has settled runs, and a request  *)
(* either settles or never does.                                            *)

\* part_000:947-962  no timeout and no AbortSignal is given to fetch: the
\* request, or the reading of its body, never settles
RequestHangs(c) ==
  /\ calls[c].pc \in { "fetch", "text", "json" }
  /\ calls' = [calls EXCEPT ![c].pc = "hung"]
  /\ UNCHANGED << env, instance, constructed, returned, providers,
                  clientVars, mockVars, convVars, normVars, replyVars >>

\* What response.json() settles with: a rejection, a body without
\* candidates, a reply without text and a reply holding a story map.
LiveJsonOutcomes ==
  { Throw(SyntaxError), Ok(JNull), Ok(Reply(<< >>)),
    Ok(Reply(<< "{", "full", "}" >>)) }

\* part_000:78, 947, 957, 961  the await of an invocation is resumed
Resume(c) ==
  \/ TimerFires(c)
  \/ \E outcome \in FetchOutcomes : FetchSettles(c, outcome)
  \/ TextSettles(c)
  \/ \E json \in LiveJsonOutcomes : JsonSettles(c, json)

LiveDescriptions == { << "t", "o", "d", "o" >> }

LiveNext ==
  \/ GetInstance
  \/ \E c \in CallIds, d \in LiveDescriptions, p \in Providers : Generate(c, d, p)
  \/ \E c \in CallIds : Resume(c)
  \/ \E c \in CallIds : RequestHangs(c)

LiveSpec ==
  /\ Init
  /\ [][LiveNext]_vars
  /\ \A c \in CallIds : WF_vars(Resume(c))

-----------------------------------------------------------------------------
(* The client used directly.                                                *)

\* part_000:802-811  new GeminiService()
ConstructService ==
  /\ standalone = NoService
  /\ standalone' = GeminiService(env.gemini)
  /\ constructed' = [constructed EXCEPT !.GeminiService = @ + 1]
  /\ UNCHANGED << env, instance, returned, calls, providers, direct,
                  mockVars, convVars, normVars, replyVars >>

\* part_000:813-954  a caller invokes the client's generateStoryMap; it runs
\* to the awaited fetch or throws. The invocations are numbered in the order
\* they are made.
DirectGenerate(c) ==
  /\ standalone # NoService
  /\ direct[c].pc = "idle"
  /\ \A b \in CallIds : (b < c) => direct[b].pc # "idle"
  /\ direct' = [direct EXCEPT ![c] = GeminiGenerateStoryMap(standalone, IdleDirect)]
  /\ UNCHANGED << orchestratorVars, standalone, mockVars, convVars,
                  normVars, replyVars >>

\* part_000:948-961  the fetch settles; a response's body is then awaited
DirectFetchSettles(c, outcome) ==
  /\ direct[c].pc = "fetch"
  /\ direct' = [direct EXCEPT ![c] =
       LET settled == [@ EXCEPT !.fetched = outcome] IN
       IF outcome.kind = "rejected" THEN GeminiFails(settled, << "fetch failed" >>)
       ELSE IF ResponseOk(outcome) THEN [settled EXCEPT !.pc = "json"]
       ELSE [settled EXCEPT !.pc = "text"]]
  /\ UNCHANGED << orchestratorVars, standalone, mockVars, convVars,
                  normVars, replyVars >>

\* part_000:957-958  the error body of a non-success response has been read
DirectTextSettles(c) ==
  /\ direct[c].pc = "text"
  /\ direct' = [direct EXCEPT ![c] =
       GeminiFails(@, << "Gemini API error:", @.fetched.status >>)]
  /\ UNCHANGED << orchestratorVars, standalone, mockVars, convVars,
                  normVars, replyVars >>

\* part_000:961-980  response.json() settles and the reply is processed
DirectJsonSettles(c, json) ==
  /\ direct[c].pc = "json"
  /\ direct' = [direct EXCEPT ![c] =
       LET settled == [@ EXCEPT !.body = json]
           reply == GeminiReadReply(json)
       IN IF reply.ok THEN [settled EXCEPT !.pc = "done", !.result = reply]
          ELSE GeminiFails(settled, reply.error)]
  /\ UNCHANGED << orchestratorVars, standalone, mockVars, convVars,
                  normVars, replyVars >>

ClientInit ==
  /\ env \in [deepseek : { JUndefined }, gemini : EnvValues]
  /\ instance = NoInstance
  /\ constructed = NoneConstructed
  /\ returned = {}
  /\ calls = [c \in CallIds |-> IdleCall]
  /\ providers = NotCalled
  /\ standalone = NoService
  /\ direct = [c \in CallIds |-> IdleDirect]
  /\ mockArg = << >>
  /\ mockResult = NotCalled
  /\ convArg = NotCalled
  /\ convResult = NotCalled
  /\ normArg = NotCalled
  /\ normResult = NotCalled
  /\ replyArg = << >>
  /\ replyResult = NotCalled

ClientNext ==
  \/ ConstructService
  \/ \E c \in CallIds : DirectGenerate(c)
  \/ \E c \in CallIds, outcome \in FetchOutcomes : DirectFetchSettles(c, outcome)
  \/ \E c \in CallIds : DirectTextSettles(c)
  \/ \E c \in CallIds, json \in JsonOutcomes : DirectJsonSettles(c, json)

ClientSpec == ClientInit /\ [][ClientNext]_vars

-----------------------------------------------------------------------------
(* The mock generator applied directly to a description.                    *)

\* part_000:108-121  generateMockStoryMap(mockArg) returns
MockGenerate ==
  /\ mockResult = NotCalled
  /\ mockResult' = generateMockStoryMap(mockArg)
  /\ UNCHANGED << env, instance, constructed, returned, calls, providers,
                  clientVars, mockArg, convVars, normVars, replyVars >>

MockInit ==
  /\ env = [deepseek |-> JUndefined, gemini |-> JUndefined]
  /\ instance = NoInstance
  /\ constructed = NoneConstructed
  /\ returned = {}
  /\ calls = [c \in CallIds |-> IdleCall]
  /\ providers = NotCalled
  /\ mockArg \in Descriptions
  /\ mockResult = NotCalled
  /\ convArg = NotCalled
  /\ convResult = NotCalled
  /\ standalone = NoService
  /\ direct = [c \in CallIds |-> IdleDirect]
  /\ normArg = NotCalled
  /\ normResult = NotCalled
  /\ replyArg = << >>
  /\ replyResult = NotCalled

MockNext == MockGenerate

MockSpec == MockInit /\ [][MockNext]_vars

-----------------------------------------------------------------------------
(* The format converter (part_000:730-769).                                 *)

\* Math.random() as the digits of its base-36 expansion after "0.": none for
\* 0, one for 0.5, eleven or so for most values.
RandomTail == << "f", "z", "y", "o", "8", "2", "m", "v" >>
RandomLead == << "a", "b", "c", "d", "e", "g", "h", "j", "k", "n", "p", "q",
                 "r", "s", "t", "u", "w", "x", "1", "3", "4", "5", "6", "7" >>

\* The k-th of a family of values that differ in their first digit, and its
\* neighbour that differs from it in the eleventh digit only.
RandomValue(k) ==
  << RandomLead[((k - 1) % Len(RandomLead)) + 1] >> \o RandomTail \o << "y", "r" >>
RandomNeighbour(k) ==
  << RandomLead[((k - 1) % Len(RandomLead)) + 1] >> \o RandomTail \o << "y", "s" >>
RandomZero == << >>
RandomHalf == << "i" >>

\* String.prototype.substr(2, 9) of "0." followed by the digits.
IdLength == 9

\* part_000:767-769  generateId(): Math.random().toString(36).substr(2, 9)
generateId(random) ==
  SubSeq(random, 1, IF Len(random) < IdLength THEN Len(random) ELSE IdLength)

RECURSIVE SumTo(_, _)
SumTo(f, n) == IF n = 0 THEN 0 ELSE f[n] + SumTo(f, n - 1)

\* The number of tasks, and of nodes (the map, epics, features, tasks).
TasksOfEpic(epic) ==
  SumTo([j \in DOMAIN epic.features |-> Len(epic.features[j].tasks)],
        Len(epic.features))
NodesOfEpic(epic) == 1 + Len(epic.features) + TasksOfEpic(epic)
TaskCount(yaml) ==
  SumTo([i \in DOMAIN yaml.epics |-> TasksOfEpic(yaml.epics[i])], Len(yaml.epics))
NodeCount(yaml) ==
  1 + SumTo([i \in DOMAIN yaml.epics |-> NodesOfEpic(yaml.epics[i])], Len(yaml.epics))

\* The position of a node's generateId() call among the calls of one
\* conversion: the map first, then depth-first in sequence order.
EpicDraw(yaml, i) ==
  2 + SumTo([k \in DOMAIN yaml.epics |-> NodesOfEpic(yaml.epics[k])], i - 1)
FeatureDraw(yaml, i, j) ==
  EpicDraw(yaml, i) + 1
    + SumTo([k \in DOMAIN yaml.epics[i].features |->
               1 + Len(yaml.epics[i].features[k].tasks)], j - 1)
TaskDraw(yaml, i, j, k) == FeatureDraw(yaml, i, j) + k

\* The position of a task among the tasks, in the same order; the task reads
\* the clock twice, the map twice after all of them.
TaskOrdinal(yaml, i, j, k) ==
  SumTo([e \in DOMAIN yaml.epics |-> TasksOfEpic(yaml.epics[e])], i - 1)
    + SumTo([f \in DOMAIN yaml.epics[i].features |->
               Len(yaml.epics[i].features[f].tasks)], j - 1)
    + k
ClockReads(yaml) == 2 * TaskCount(yaml) + 2

\* part_000:736-759 with the epics numbered from one.
convertYAMLToStoryMap_oneBased(yaml, random, clock) ==
  [ id |-> generateId(random[1]),
    title |-> yaml.title,
    description |-> yaml.description,
    epics |-> [i \in DOMAIN yaml.epics |->
      [ id |-> generateId(random[EpicDraw(yaml, i)]),
        title |-> yaml.epics[i].title,
        description |-> yaml.epics[i].description,
        order |-> i,
        features |-> [j \in DOMAIN yaml.epics[i].features |->
          [ id |-> generateId(random[FeatureDraw(yaml, i, j)]),
            title |-> yaml.epics[i].features[j].title,
            description |-> yaml.epics[i].features[j].description,
            order |-> j - 1,
            tasks |-> [k \in DOMAIN yaml.epics[i].features[j].tasks |->
              LET task == yaml.epics[i].features[j].tasks[k] IN
              [ id |-> generateId(random[TaskDraw(yaml, i, j, k)]),
                title |-> task.title,
                description |-> task.description,
                type |-> "task",
                priority |-> task.priority,
                status |-> "todo",
                acceptanceCriteria |-> task.acceptance_criteria,
                estimatedEffort |-> task.effort,
                createdAt |-> clock[2 * TaskOrdinal(yaml, i, j, k) - 1],
                updatedAt |-> clock[2 * TaskOrdinal(yaml, i, j, k)] ]] ]] ]],
    createdAt |-> clock[ClockReads(yaml) - 1],
    updatedAt |-> clock[ClockReads(yaml)] ]

\* part_000:730-765  convertYAMLToStoryMap(yamlData), given the values the
\* successive Math.random() calls and new Date() reads return; map indices
\* are zero-based, sequence positions here are one-based.
convertYAMLToStoryMap(yaml, random, clock) ==
  [ id |-> generateId(random[1]),
    title |-> yaml.title,
    description |-> yaml.description,
    epics |-> [i \in DOMAIN yaml.epics |->
      [ id |-> generateId(random[EpicDraw(yaml, i)]),
        title |-> yaml.epics[i].title,
        description |-> yaml.epics[i].description,
        order |-> i - 1,
        features |-> [j \in DOMAIN yaml.epics[i].features |->
          [ id |-> generateId(random[FeatureDraw(yaml, i, j)]),
            title |-> yaml.epics[i].features[j].title,
            description |-> yaml.epics[i].features[j].description,
            order |-> j - 1,
            tasks |-> [k \in DOMAIN yaml.epics[i].features[j].tasks |->
              LET task == yaml.epics[i].features[j].tasks[k] IN
              [ id |-> generateId(random[TaskDraw(yaml, i, j, k)]),
                title |-> task.title,
                description |-> task.description,
                type |-> "task",
                priority |-> task.priority,
                status |-> "todo",
                acceptanceCriteria |-> task.acceptance_criteria,
                estimatedEffort |-> task.effort,
                createdAt |-> clock[2 * TaskOrdinal(yaml, i, j, k) - 1],
                updatedAt |-> clock[2 * TaskOrdinal(yaml, i, j, k)] ]] ]] ]],
    createdAt |-> clock[ClockReads(yaml) - 1],
    updatedAt |-> clock[ClockReads(yaml)] ]

\* Inputs of the canonical shape: up to MaxEpics epics of up to MaxFeatures
\* features of up to MaxTasks tasks, titled by position.
MaxEpics == 2
MaxFeatures == 2
MaxTasks == 2

Titles == << "Alpha", "Beta", "Gamma", "Delta" >>
TitleAt(n) == Titles[((n - 1) % Len(Titles)) + 1]
Priorities == << "high", "medium", "low" >>

\* A shape gives, for each epic, the number of tasks of each of its features.
\* The shapes have e epics; the numbers of features and of tasks vary with
\* the position, from the shifts r and s.
ShapeOf(e, r, s) ==
  [i \in 1..e |->
    [j \in 1..((i + r) % (MaxFeatures + 1)) |-> (i + j + s) % (MaxTasks + 1)]]

Shapes ==
  { ShapeOf(e, r, s) : e \in 0..MaxEpics, r \in 0..MaxFeatures, s \in 0..MaxTasks }

YamlOfShape(shape) ==
  [ title |-> JStr("Product"),
    description |-> JChars(<< "p" >>),
    epics |-> [i \in DOMAIN shape |->
      [ title |-> JStr(TitleAt(i)),
        description |-> JStr("epic"),
        features |-> [j \in DOMAIN shape[i] |->
          [ title |-> JStr(TitleAt(i + j)),
            description |-> JStr("feature"),
            tasks |-> [k \in 1..shape[i][j] |->
              [ title |-> JStr(TitleAt(j + k)),
                description |-> JStr("task"),
                priority |-> JStr(Priorities[((i + j + k) % 3) + 1]),
                effort |-> JStr("2 days"),
                acceptance_criteria |-> << JStr("done") >> ]] ]] ]] ]

\* The values n successive Math.random() calls return: all different in the
\* first digit; or one of them zero or one half; or one the same as an
\* earlier one, or different from it in the eleventh digit only.
RandomStreams(n) ==
  { [d \in 1..n |-> RandomValue(d)] }
    \cup { [d \in 1..n |-> IF d = a THEN r ELSE RandomValue(d)] :
             a \in 1..n, r \in { RandomZero, RandomHalf } }
    \cup { [d \in 1..n |-> IF d = b /\ a < b THEN RandomValue(a) ELSE RandomValue(d)] :
             a \in 1..n, b \in 1..n }
    \cup { [d \in 1..n |-> IF d = b /\ a < b THEN RandomNeighbour(a) ELSE RandomValue(d)] :
             a \in 1..n, b \in 1..n }

\* The values n successive new Date().toISOString() reads return: the
\* millisecond of the first read, until the clock ticks.
MaxTicks == 1
ClockStreams(n) ==
  { [r \in 1..n |-> Cardinality({ t \in ticks : t < r })] :
      ticks \in { T \in SUBSET (1..n) : Cardinality(T) <= MaxTicks } }

\* What one conversion meets: identifiers that may repeat while the clock
\* stands still, or a clock that ticks while the identifiers differ.
Worlds(yaml) ==
  { [random |-> random, clock |-> [r \in 1..ClockReads(yaml) |-> 0]] :
      random \in RandomStreams(NodeCount(yaml)) }
    \cup { [random |-> [d \in 1..NodeCount(yaml) |-> RandomValue(d)], clock |-> clock] :
             clock \in ClockStreams(ClockReads(yaml)) }

\* part_000:730-765  convertYAMLToStoryMap(convArg) returns
Convert ==
  /\ convResult = NotCalled
  /\ \E world \in Worlds(convArg) :
       convResult' = convertYAMLToStoryMap(convArg, world.random, world.clock)
  /\ UNCHANGED << env, instance, constructed, returned, calls, providers,
                  clientVars, mockVars, convArg, normVars, replyVars >>

ConvertInit ==
  /\ env = [deepseek |-> JUndefined, gemini |-> JUndefined]
  /\ instance = NoInstance
  /\ constructed = NoneConstructed
  /\ returned = {}
  /\ calls = [c \in CallIds |-> IdleCall]
  /\ providers = NotCalled
  /\ mockArg = << >>
  /\ mockResult = NotCalled
  /\ convArg \in { YamlOfShape(shape) : shape \in Shapes }
  /\ convResult = NotCalled
  /\ standalone = NoService
  /\ direct = [c \in CallIds |-> IdleDirect]
  /\ normArg = NotCalled
  /\ normResult = NotCalled
  /\ replyArg = << >>
  /\ replyResult = NotCalled

ConvertNext == Convert

ConvertSpec == ConvertInit /\ [][ConvertNext]_vars

-----------------------------------------------------------------------------
(* The normaliser applied to what JSON.parse can return for a "{...}" span, *)
(* and the converter applied to what the normaliser returns.                *)

\* A member that the parsed object does not have.
Absent == [t |-> "absent"]

\* The object with the members of r that are present.
ObjectOf(r) == JObj([f \in { g \in DOMAIN r : r[g] # Absent } |-> r[f]])

\* What a text member, a priority and an acceptance_criteria member can be.
TextValues == { Absent, JStr(""), JStr("Text") }
PriorityValues ==
  { Absent, JNull, JStr(""), JStr("high"), JStr("medium"), JStr("low"),
    JStr("urgent"), JNum(1) }
CriteriaValues ==
  { Absent, JNull, JStr("none"), JObj(<< >>), JArr(<< >>),
    JArr(<< JStr("It works") >>) }

\* What stands where a list is expected and is none.
NonLists ==
  { Absent, JNull, JStr(""), JStr("none"), JNum(0), JNum(3), JObj(<< >>) }

\* The lists: empty, of one of the elements, and of up to MaxList elements
\* that are the plain one but for the last, which is plain or null.
MaxList == 2
ListsOf(elements, plain) ==
  { JArr(<< >>) }
    \cup { JArr(<< e >>) : e \in elements }
    \cup { JArr([n \in 1..len |-> IF n = len THEN last ELSE plain]) :
             len \in 1..MaxList, last \in { JNull, plain } }

ParsedTask(text, priority, criteria) ==
  ObjectOf([ title |-> text, description |-> text, priority |-> priority,
             effort |-> text, acceptance_criteria |-> criteria ])
ParsedTasks ==
  { ParsedTask(text, priority, criteria) :
      text \in TextValues, priority \in PriorityValues, criteria \in CriteriaValues }
PlainTask == ParsedTask(JStr("Text"), JStr("low"), JArr(<< JStr("It works") >>))
PlainTasks == JArr(<< PlainTask >>)

ParsedFeature(text, tasks) ==
  ObjectOf([ title |-> text, description |-> text, tasks |-> tasks ])
ParsedFeatures ==
  { ParsedFeature(text, PlainTasks) : text \in TextValues }
    \cup { ParsedFeature(JStr("Text"), tasks) :
             tasks \in NonLists \cup ListsOf(ParsedTasks, PlainTask) }
PlainFeature == ParsedFeature(JStr("Text"), PlainTasks)
PlainFeatures == JArr(<< PlainFeature >>)

ParsedEpic(text, features) ==
  ObjectOf([ title |-> text, description |-> text, features |-> features ])
ParsedEpics ==
  { ParsedEpic(text, PlainFeatures) : text \in TextValues }
    \cup { ParsedEpic(JStr("Text"), features) :
             features \in NonLists \cup ListsOf(ParsedFeatures, PlainFeature) }
PlainEpic == ParsedEpic(JStr("Text"), PlainFeatures)
PlainEpics == JArr(<< PlainEpic >>)

ParsedResponse(title, description, epics) ==
  ObjectOf([ title |-> title, description |-> description, epics |-> epics ])
ParsedResponses ==
  { ParsedResponse(title, description, PlainEpics) :
      title \in TextValues, description \in TextValues }
    \cup { ParsedResponse(JStr("Text"), JStr("Text"), epics) :
             epics \in NonLists \cup ListsOf(ParsedEpics, PlainEpic) }

\* part_000:975  validateAndTransformResponse(normArg) returns or throws
Normalize ==
  /\ normArg # NotCalled
  /\ normResult = NotCalled
  /\ normResult' = validateAndTransformResponse(normArg)
  /\ UNCHANGED << orchestratorVars, clientVars, mockVars, convVars,
                  normArg, replyVars >>

\* part_000:730-765  convertYAMLToStoryMap applied to the normaliser's value
ConvertNormalized ==
  /\ normResult # NotCalled
  /\ normResult.ok
  /\ convResult = NotCalled
  /\ convArg' = normResult.value
  /\ \E world \in Worlds(normResult.value) :
       convResult' = convertYAMLToStoryMap(normResult.value, world.random, world.clock)
  /\ UNCHANGED << orchestratorVars, clientVars, mockVars, normVars, replyVars >>

NormalizeInit ==
  /\ env = [deepseek |-> JUndefined, gemini |-> JUndefined]
  /\ instance = NoInstance
  /\ constructed = NoneConstructed
  /\ returned = {}
  /\ calls = [c \in CallIds |-> IdleCall]
  /\ providers = NotCalled
  /\ standalone = NoService
  /\ direct = [c \in CallIds |-> IdleDirect]
  /\ mockArg = << >>
  /\ mockResult = NotCalled
  /\ convArg = NotCalled
  /\ convResult = NotCalled
  /\ normArg \in ParsedResponses
  /\ normResult = NotCalled
  /\ replyArg = << >>
  /\ replyResult = NotCalled

NormalizeNext == Normalize \/ ConvertNormalized

NormalizeSpec == NormalizeInit /\ [][NormalizeNext]_vars

-----------------------------------------------------------------------------
(* The client's reading of a reply text.                                    *)

\* The pieces reply texts are made of: prose, a lone brace, a JSON object
\* (with members or without), and braces around prose.
Pieces ==
  { << "or" >>, << "{" >>, << "}" >>,
    << "{", "full", "}" >>, << "{", "sparse", "}" >>,
    << "{", "}" >>, << "{", "or", "}" >> }

MaxPieces == 3

RECURSIVE Joined(_)
Joined(n) ==
  IF n = 0 THEN { << >> }
  ELSE Joined(n - 1) \cup { text \o piece : text \in Joined(n - 1), piece \in Pieces }

ReplyPool == Joined(MaxPieces)

\* part_000:961-975  the reply with the text replyArg has arrived and is read
ReadReply ==
  /\ replyResult = NotCalled
  /\ replyResult' = GeminiReadReply(Ok(Reply(replyArg)))
  /\ UNCHANGED << orchestratorVars, clientVars, mockVars, convVars,
                  normVars, replyArg >>

ReplyInit ==
  /\ env = [deepseek |-> JUndefined, gemini |-> JUndefined]
  /\ instance = NoInstance
  /\ constructed = NoneConstructed
  /\ returned = {}
  /\ calls = [c \in CallIds |-> IdleCall]
  /\ providers = NotCalled
  /\ standalone = NoService
  /\ direct = [c \in CallIds |-> IdleDirect]
  /\ mockArg = << >>
  /\ mockResult = NotCalled
  /\ convArg = NotCalled
  /\ convResult = NotCalled
  /\ normArg = NotCalled
  /\ normResult = NotCalled
  /\ replyArg \in ReplyPool
  /\ replyResult = NotCalled

ReplyNext == ReadReply

ReplySpec == ReplyInit /\ [][ReplyNext]_vars

-----------------------------------------------------------------------------
(* Properties of the orchestrator.                                          *)

Started(c) == calls[c].pc # "idle"
Returned(c) == calls[c].pc = "done"

\* A value of the canonical StoryMapYAML shape.
IsTaskYAML(task) ==
  DOMAIN task = { "title", "description", "priority", "effort", "acceptance_criteria" }
IsFeatureYAML(feature) ==
  /\ DOMAIN feature = { "title", "description", "tasks" }
  /\ \A k \in DOMAIN feature.tasks : IsTaskYAML(feature.tasks[k])
IsEpicYAML(epic) ==
  /\ DOMAIN epic = { "title", "description", "features" }
  /\ \A j \in DOMAIN epic.features : IsFeatureYAML(epic.features[j])
IsStoryMapYAML(yaml) ==
  /\ DOMAIN yaml = { "title", "description", "epics" }
  /\ \A i \in DOMAIN yaml.epics : IsEpicYAML(yaml.epics[i])

\* The client's promise of call c has rejected.
ClientFailed(c) ==
  /\ calls[c].client # "none"
  /\ calls[c].clientResult # NotCalled
  /\ ~calls[c].clientResult.ok

\* C1: generateStoryMap never fails. No invocation ends with a rejected
\* promise, for any description, provider selector and client outcome; an
\* invocation that has returned holds a StoryMapYAML value.
C1_NeverFails ==
  \A c \in CallIds :
    /\ calls[c].pc # "rejected"
    /\ Returned(c) =>
         /\ calls[c].result.ok
         /\ IsStoryMapYAML(calls[c].result.value)

\* Two invocations have returned a value, one after its fetch was rejected,
\* the other after the normaliser refused the parsed reply.
C1_Witness ==
  \E a, b \in CallIds :
    /\ Returned(a) /\ ClientFailed(a)
    /\ calls[a].clientResult.error = << "Failed to generate story map", "fetch failed" >>
    /\ Returned(b) /\ ClientFailed(b)
    /\ calls[b].clientResult.error =
         << "Failed to generate story map", "Invalid response structure from Gemini API" >>
    /\ calls[a].result.ok /\ calls[b].result.ok

\* C2: fallback equivalence. An invocation whose configured provider's client
\* failed returns the same value as an invocation with provider mock and the
\* same description; only the second one has waited for the delay.
C2_FallbackEqualsMock ==
  \A a, b \in CallIds :
    ( /\ Returned(a) /\ ClientFailed(a)
      /\ Returned(b) /\ calls[b].provider = "mock"
      /\ calls[a].productDescription = calls[b].productDescription )
    => /\ calls[a].result = calls[b].result
       /\ ~calls[a].delayed
       /\ calls[b].delayed

\* A failed Gemini invocation and a mock invocation, both for "SHOP", have
\* returned.
C2_Witness ==
  \E a, b \in CallIds :
    /\ Returned(a) /\ ClientFailed(a) /\ calls[a].provider = "gemini"
    /\ calls[a].requests = 1
    /\ Returned(b) /\ calls[b].provider = "mock"
    /\ calls[a].productDescription = << "S", "H", "O", "P" >>
    /\ calls[b].productDescription = << "S", "H", "O", "P" >>

\* The requested provider has a client and that client is configured.
Selected(c) ==
  /\ calls[c].provider \in { "deepseek", "gemini" }
  /\ ClientIsConfigured(calls[c].provider).ok
  /\ ClientIsConfigured(calls[c].provider).value

\* C3: selection policy. The requested provider's client is invoked exactly
\* when the provider is not mock and its client is configured, and then a
\* successful client result is returned unchanged; otherwise no client is
\* invoked, no HTTP request is issued and the mock content for the same
\* description is returned.
C3_SelectionPolicy ==
  \A c \in CallIds :
    Started(c) =>
      /\ (calls[c].client # "none") <=> Selected(c)
      /\ Selected(c) =>
           /\ calls[c].client = calls[c].provider
           /\ (Returned(c) /\ calls[c].clientResult.ok)
                => calls[c].result = calls[c].clientResult
      /\ ~Selected(c) =>
           /\ calls[c].requests = 0
           /\ calls[c].clientResult = NotCalled
           /\ Returned(c) =>
                calls[c].result = Ok(generateMockStoryMap(calls[c].productDescription))

\* One invocation has returned its Gemini client's result, another one has
\* returned mock content because DeepSeek is not configured.
C3_Witness ==
  \E a, b \in CallIds :
    /\ Returned(a) /\ calls[a].provider = "gemini" /\ calls[a].client = "gemini"
    /\ calls[a].clientResult # NotCalled /\ calls[a].clientResult.ok
    /\ calls[a].result.value.title = JStr("AI Shop")
    /\ Returned(b) /\ calls[b].provider = "deepseek" /\ calls[b].client = "none"
    /\ calls[b].requests = 0

\* The epics of a story map that bear a title.
EpicsTitled(yaml, title) ==
  { i \in DOMAIN yaml.epics : yaml.epics[i].title = JStr(title) }
FeaturesTitled(epic, title) ==
  { j \in DOMAIN epic.features : epic.features[j].title = JStr(title) }

\* C6: with provider mock, the result has a non-empty epics sequence with
\* exactly one epic titled "Infrastructure & Technical", which has a
\* "Security & Performance" and a "Data Management" feature, each with at
\* least one task.
C6_InfrastructureEpic ==
  \A c \in CallIds :
    (Returned(c) /\ calls[c].provider = "mock") =>
      LET yaml == calls[c].result.value IN
      /\ Len(yaml.epics) > 0
      /\ Cardinality(EpicsTitled(yaml, "Infrastructure & Technical")) = 1
      /\ \A i \in EpicsTitled(yaml, "Infrastructure & Technical") :
           \A name \in { "Security & Performance", "Data Management" } :
             /\ FeaturesTitled(yaml.epics[i], name) # {}
             /\ \A j \in FeaturesTitled(yaml.epics[i], name) :
                  Len(yaml.epics[i].features[j].tasks) > 0

\* Two mock invocations have returned, one the generic template and one the
\* task-management template.
C6_Witness ==
  \E a, b \in CallIds :
    /\ Returned(a) /\ calls[a].provider = "mock"
    /\ calls[a].result.value.title = JStr("Product Application")
    /\ Returned(b) /\ calls[b].provider = "mock"
    /\ calls[b].result.value.title = JStr("Task Management System")

\* C7: the Gemini client's isConfigured() returns without throwing, and true
\* exactly when the held credential is a non-empty string; when reading the
\* environment threw in the constructor the credential is "" and the answer
\* is false.
C7_IsConfigured ==
  instance # NoInstance =>
    LET service == instance.geminiService
        answer == isConfigured(service)
    IN /\ answer.ok
       /\ answer.value <=> (service.apiKey.t = "string" /\ service.apiKey.v # "")
       /\ env.gemini = EnvThrows =>
            (service.apiKey = JStr("") /\ answer.value = FALSE)
       /\ providers # NotCalled =>
            (providers.ok /\ providers.value[2].configured = answer.value)

\* The client was constructed while reading the environment threw, and
\* isConfigured() has since answered false.
C7_Witness ==
  /\ instance # NoInstance
  /\ env.gemini = EnvThrows
  /\ providers # NotCalled
  /\ providers.ok
  /\ providers.value[2].configured = FALSE

\* C8: getAvailableProviders returns three entries, deepseek, gemini, mock in
\* this order; the first two carry what the client's isConfigured() returns
\* at the call, the third is configured.
C8_Providers ==
  providers # NotCalled =>
    /\ providers.ok
    /\ Len(providers.value) = 3
    /\ [i \in 1..3 |-> providers.value[i].provider] = << "deepseek", "gemini", "mock" >>
    /\ providers.value[1].configured
         = DeepSeekIsConfigured(instance.deepseekService).value
    /\ providers.value[2].configured = isConfigured(instance.geminiService).value
    /\ providers.value[2].configured
         = (env.gemini.t = "string" /\ env.gemini.v # "")
    /\ providers.value[3].configured = TRUE

\* The providers have been listed with DeepSeek configured and Gemini not.
C8_Witness ==
  /\ providers # NotCalled
  /\ providers.ok
  /\ providers.value[1].configured = TRUE
  /\ providers.value[2].configured = FALSE
  /\ env.gemini = JStr("")

-----------------------------------------------------------------------------
(* Properties of the mock generator.                                        *)

\* Character c is letter k in either case.
SameLetter(c, k) ==
  c = k \/ \E n \in DOMAIN LowerCase : LowerCase[n] = k /\ UpperCase[n] = c

\* Description d contains keyword k, whatever the case of its letters.
Mentions(d, k) ==
  \E i \in 1..Len(d) :
    /\ i + Len(k) - 1 <= Len(d)
    /\ \A j \in 1..Len(k) : SameLetter(d[i + j - 1], k[j])

\* The category of a description by the reference rule.
Category(d) ==
  IF Mentions(d, KwEcommerce) \/ Mentions(d, KwShop) \/ Mentions(d, KwStore)
    THEN "ecommerce"
  ELSE IF Mentions(d, KwSocial) \/ Mentions(d, KwNetwork) THEN "social"
  ELSE IF Mentions(d, KwTask) \/ Mentions(d, KwTodo) THEN "task"
  ELSE "generic"

\* C4: the template the mock generator returns is the one the reference rule
\* selects: e-commerce for ecommerce, shop or store in any letter case, else
\* social-network for social or network, else task-management for task or
\* todo, else generic.
C4_TemplateSelection ==
  mockResult # NotCalled =>
    mockResult.title =
      CASE Category(mockArg) = "ecommerce" -> generateEcommerceStoryMap.title
        [] Category(mockArg) = "social" -> generateSocialNetworkStoryMap.title
        [] Category(mockArg) = "task" -> generateTaskManagementStoryMap.title
        [] OTHER -> JStr("Product Application")

\* The description "Shopsocial", which matches the first two keyword sets,
\* has been given the e-commerce template.
C4_Witness ==
  /\ mockArg = << "S", "h", "o", "p", "s", "o", "c", "i", "a", "l" >>
  /\ mockResult # NotCalled
  /\ mockResult.title = JStr("E-commerce Platform")

\* C5: a description that matches no keyword set gets the generic template,
\* titled "Product Application", whose description is the input as given; a
\* description that matches gets one of the three fixed templates, the same
\* for every description of its category.
C5_GenericEchoesInput ==
  mockResult # NotCalled =>
    IF Category(mockArg) = "generic"
      THEN /\ mockResult.title = JStr("Product Application")
           /\ mockResult.description = JChars(mockArg)
           /\ mockResult = generateGenericStoryMap(mockArg)
      ELSE mockResult =
             CASE Category(mockArg) = "ecommerce" -> generateEcommerceStoryMap
               [] Category(mockArg) = "social" -> generateSocialNetworkStoryMap
               [] OTHER -> generateTaskManagementStoryMap

\* The unmatched description "Blog re" has come back with its capital.
C5_Witness ==
  /\ mockArg = << "B", "l", "o", "g", "r", "e" >>
  /\ mockResult # NotCalled
  /\ mockResult.title = JStr("Product Application")
  /\ mockResult.description = JChars(<< "B", "l", "o", "g", "r", "e" >>)

-----------------------------------------------------------------------------
(* Properties of the format converter.                                      *)

\* The identifiers of a story map: of the map, the epics, the features and
\* the tasks.
EpicIds(map) == { map.epics[i].id : i \in DOMAIN map.epics }
FeatureIds(map) ==
  UNION { { map.epics[i].features[j].id : j \in DOMAIN map.epics[i].features } :
          i \in DOMAIN map.epics }
TaskIds(map) ==
  UNION { UNION { { map.epics[i].features[j].tasks[k].id :
                      k \in DOMAIN map.epics[i].features[j].tasks } :
                  j \in DOMAIN map.epics[i].features } :
          i \in DOMAIN map.epics }
AllIds(map) == { map.id } \cup EpicIds(map) \cup FeatureIds(map) \cup TaskIds(map)

\* C9: within one conversion the identifiers of the map, the epics, the
\* features and the tasks are pairwise distinct.
C9_IdsDistinct ==
  convResult # NotCalled =>
    Cardinality(AllIds(convResult)) = NodeCount(convArg)

\* C10: the i-th epic has order i and the j-th feature of an epic order j,
\* counted from zero, and the epics, features and tasks come in the input's
\* sequence with the input's counts and titles.
C10_OrderMatchesInput ==
  convResult # NotCalled =>
    /\ Len(convResult.epics) = Len(convArg.epics)
    /\ \A i \in DOMAIN convArg.epics :
         LET epicIn == convArg.epics[i]
             epicOut == convResult.epics[i]
         IN /\ epicOut.order = i - 1
            /\ epicOut.title = epicIn.title
            /\ Len(epicOut.features) = Len(epicIn.features)
            /\ \A j \in DOMAIN epicIn.features :
                 /\ epicOut.features[j].order = j - 1
                 /\ epicOut.features[j].title = epicIn.features[j].title
                 /\ Len(epicOut.features[j].tasks) = Len(epicIn.features[j].tasks)
                 /\ \A k \in DOMAIN epicIn.features[j].tasks :
                      epicOut.features[j].tasks[k].title
                        = epicIn.features[j].tasks[k].title

\* A map of two epics has been converted whose second epic has two features,
\* the second of them with two tasks.
C10_Witness ==
  /\ convResult # NotCalled
  /\ Len(convResult.epics) = 2
  /\ Len(convResult.epics[2].features) = 2
  /\ convResult.epics[2].order = 1
  /\ convResult.epics[2].features[2].order = 1
  /\ Len(convResult.epics[2].features[2].tasks) = 2
  /\ Len(convResult.epics[1].features) = 1

-----------------------------------------------------------------------------
(* Properties of the converter's timestamps.                                *)

\* The tasks of a map, converted or not.
TasksOfMap(map) ==
  UNION { UNION { { map.epics[i].features[j].tasks[k] :
                      k \in DOMAIN map.epics[i].features[j].tasks } :
                  j \in DOMAIN map.epics[i].features } :
          i \in DOMAIN map.epics }

\* C11: in the output of convertYAMLToStoryMap, createdAt equals updatedAt
\* on the map and on every task, whatever the clock does during the
\* conversion, the clock advancing between two successive reads included.
C11_TimestampsEqual ==
  convResult # NotCalled =>
    /\ convResult.createdAt = convResult.updatedAt
    /\ \A task \in TasksOfMap(convResult) : task.createdAt = task.updatedAt

-----------------------------------------------------------------------------
(* Properties of the normaliser.                                            *)

PriorityEnumeration == { JStr("high"), JStr("medium"), JStr("low") }
Placeholder == << JStr("Acceptance criteria not specified") >>

\* The elements of x when it is a list, none otherwise.
ListOf(x) == IF isArray(x) THEN x.v ELSE << >>

\* The epics, features and tasks of the parsed object, by position.
InputEpics == ListOf(Get(normArg, "epics"))
InputFeatures(i) ==
  IF Nullish(InputEpics[i]) THEN << >> ELSE ListOf(Get(InputEpics[i], "features"))
InputTasks(i, j) ==
  IF Nullish(InputFeatures(i)[j]) THEN << >>
  ELSE ListOf(Get(InputFeatures(i)[j], "tasks"))

\* The positions of the tasks of a normalised map.
TaskPositions(yaml) ==
  { t \in (DOMAIN yaml.epics) \X (1..MaxList) \X (1..MaxList) :
      /\ t[2] \in DOMAIN yaml.epics[t[1]].features
      /\ t[3] \in DOMAIN yaml.epics[t[1]].features[t[2]].tasks }

Normalized == normResult # NotCalled /\ normResult.ok

\* Some list of the parsed object holds a null.
NullElement ==
  \E i \in DOMAIN InputEpics :
    \/ InputEpics[i] = JNull
    \/ \E j \in DOMAIN InputFeatures(i) :
         \/ InputFeatures(i)[j] = JNull
         \/ \E k \in DOMAIN InputTasks(i, j) : InputTasks(i, j)[k] = JNull

\* The parsed object passes the test of part_000:985.
Resembles ==
  /\ Truthy(Get(normArg, "title"))
  /\ Truthy(Get(normArg, "description"))
  /\ isArray(Get(normArg, "epics"))

\* C12: every task's priority is one of high, medium, low after
\* normalisation and after conversion: a task whose priority is missing or
\* is outside the enumeration comes out of the normaliser with priority
\* medium, and the converter carries the priority through unchanged.
C12_PriorityEnumerated ==
  /\ Normalized =>
       \A t \in TaskPositions(normResult.value) :
         LET given == Get(InputTasks(t[1], t[2])[t[3]], "priority")
             task == normResult.value.epics[t[1]].features[t[2]].tasks[t[3]]
         IN /\ task.priority \in PriorityEnumeration
            /\ given \notin PriorityEnumeration => task.priority = JStr("medium")
  /\ (Normalized /\ convResult # NotCalled) =>
       /\ \A task \in TasksOfMap(convResult) : task.priority \in PriorityEnumeration
       /\ \A t \in TaskPositions(normResult.value) :
            convResult.epics[t[1]].features[t[2]].tasks[t[3]].priority
              = normResult.value.epics[t[1]].features[t[2]].tasks[t[3]].priority

\* C13: acceptance_criteria is never empty in a task the normaliser
\* produces: a missing or non-list acceptance_criteria is replaced by the
\* one-element placeholder list, and no input, one with an empty list
\* included, yields an empty acceptance_criteria.
C13_CriteriaNeverEmpty ==
  Normalized =>
    \A t \in TaskPositions(normResult.value) :
      LET given == Get(InputTasks(t[1], t[2])[t[3]], "acceptance_criteria")
          task == normResult.value.epics[t[1]].features[t[2]].tasks[t[3]]
      IN /\ task.acceptance_criteria # << >>
         /\ ~isArray(given) => task.acceptance_criteria = Placeholder

\* C14: a features or tasks member that is absent or not list-shaped is
\* treated as an empty list: the node comes out with an empty features or
\* tasks list and no error is thrown. Stated for the parsed objects that pass
\* the basic test and hold no null element.
C14_NonListsAreEmpty ==
  (normResult # NotCalled /\ Resembles /\ ~NullElement) =>
    /\ normResult.ok
    /\ \A i \in DOMAIN InputEpics :
         /\ ~isArray(Get(InputEpics[i], "features")) =>
              normResult.value.epics[i].features = << >>
         /\ \A j \in DOMAIN InputFeatures(i) :
              ~isArray(Get(InputFeatures(i)[j], "tasks")) =>
                normResult.value.epics[i].features[j].tasks = << >>

\* A features or tasks member of the parsed object is neither a list nor
\* falsy.
TruthyNonList ==
  \E i \in DOMAIN InputEpics :
    /\ ~Nullish(InputEpics[i])
    /\ \/ /\ Truthy(Get(InputEpics[i], "features"))
          /\ ~isArray(Get(InputEpics[i], "features"))
       \/ \E j \in DOMAIN InputFeatures(i) :
            /\ ~Nullish(InputFeatures(i)[j])
            /\ Truthy(Get(InputFeatures(i)[j], "tasks"))
            /\ ~isArray(Get(InputFeatures(i)[j], "tasks"))

\* C15: the normalisation pass never fails once JSON parsing has succeeded:
\* for every parsed object, whatever member is missing at whatever level and
\* whatever list holds a null, validateAndTransformResponse returns a
\* StoryMapYAML and does not throw. Stated for the parsed objects that pass
\* the basic test and whose features and tasks members are lists or falsy.
C15_NormalizerTotal ==
  (normResult # NotCalled /\ Resembles /\ ~TruthyNonList) =>
    /\ normResult.ok
    /\ IsStoryMapYAML(normResult.value)

-----------------------------------------------------------------------------
(* Properties of the validation of a reply.                                 *)

\* What JSON.parse makes of the span the client extracts from a reply text.
ParsedOf(text) ==
  LET jsonMatch == match(text) IN
  IF jsonMatch.t = "null" THEN Throw(<< "no span" >>) ELSE JSONparse(jsonMatch.v[1])

\* The parsed reply does not resemble the canonical shape: its title or its
\* description is missing, or its epics member is no list.
Unrecognisable(text) ==
  /\ ParsedOf(text).ok
  /\ LET response == ParsedOf(text).value IN
       \/ Get(response, "title") = JUndefined
       \/ Get(response, "description") = JUndefined
       \/ ~isArray(Get(response, "epics"))

UnrecognisableTexts == { text \in ReplyTexts : Unrecognisable(text) }

InvalidStructure ==
  << "Failed to generate story map", "Invalid response structure from Gemini API" >>

\* C16: when the parsed provider response does not minimally resemble the
\* canonical shape (title missing, description missing, or epics not a
\* list), the client's generateStoryMap fails with a thrown error, and the
\* orchestrator's generateStoryMap catches it and returns the mock content
\* for the same description.
C16_ValidationFallback ==
  [][\A c \in CallIds, text \in UnrecognisableTexts :
       (calls[c].pc = "json" /\ JsonSettles(c, Ok(Reply(text)))) =>
         /\ calls'[c].clientResult # NotCalled
         /\ ~calls'[c].clientResult.ok
         /\ calls'[c].pc = "done"
         /\ calls'[c].result = Ok(generateMockStoryMap(calls[c].productDescription))]_vars

\* Two invocations have returned mock content after the Gemini client threw
\* on the structure of the parsed reply, one for a description that selects a
\* template, one for a description that selects the generic content.
C16_Witness ==
  \E a, b \in CallIds :
    /\ \A c \in {a, b} :
         /\ Returned(c) /\ calls[c].client = "gemini" /\ ClientFailed(c)
         /\ calls[c].clientResult.error = InvalidStructure
         /\ calls[c].result = Ok(generateMockStoryMap(calls[c].productDescription))
    /\ calls[a].result.value = generateEcommerceStoryMap
    /\ calls[b].result.value = generateGenericStoryMap(calls[b].productDescription)

-----------------------------------------------------------------------------
(* Properties of the client used directly.                                  *)

DirectStarted(c) == direct[c].pc # "idle"
DirectSettled(c) == direct[c].pc \in { "done", "rejected" }

\* The errors of the client by kind: the missing credential is thrown as it
\* is; what the catch of part_000:977-980 throws starts with its prefix.
ConfigurationError(result) ==
  ~result.ok /\ result.error = << "Gemini API key not found" >>
ProviderError(result) ==
  ~result.ok /\ Len(result.error) >= 2
    /\ result.error[1] = "Failed to generate story map"

\* The body of a reply holds no text content.
NoTextContent(json) ==
  /\ json.ok
  /\ \/ Nullish(json.value)
     \/ ~Truthy(OptGet(OptFirst(OptGet(OptGet(OptFirst(Get(json.value, "candidates")),
                                              "content"), "parts")), "text"))

\* C17: the client's generateStoryMap called with no credential fails with a
\* configuration error before any HTTP request is issued; with a credential
\* it issues exactly one HTTP request per call, and it fails with a provider
\* error whenever that request rejects, returns a non-success status, or
\* returns a body with no text content.
C17_OneRequest ==
  \A c \in CallIds :
    DirectStarted(c) =>
      /\ ~Truthy(standalone.apiKey) =>
           /\ direct[c].pc = "rejected"
           /\ ConfigurationError(direct[c].result)
           /\ direct[c].requests = 0
      /\ Truthy(standalone.apiKey) => direct[c].requests = 1
      /\ (direct[c].fetched # NotCalled /\ direct[c].fetched.kind = "rejected") =>
           (direct[c].pc = "rejected" /\ ProviderError(direct[c].result))
      /\ (direct[c].fetched # NotCalled /\ direct[c].fetched.kind = "response"
            /\ ~ResponseOk(direct[c].fetched)) =>
           \/ direct[c].pc = "text"
           \/ direct[c].pc = "rejected" /\ ProviderError(direct[c].result)
      /\ (direct[c].body # NotCalled /\ NoTextContent(direct[c].body)) =>
           (direct[c].pc = "rejected" /\ ProviderError(direct[c].result))

\* A client with a credential has settled two invocations with one request
\* each, one whose request was answered 500 and one whose reply had an empty
\* text.
C17_Witness ==
  /\ standalone # NoService
  /\ Truthy(standalone.apiKey)
  /\ \E a, b \in CallIds :
       /\ direct[a].pc = "rejected" /\ direct[a].requests = 1
       /\ direct[a].fetched = [kind |-> "response", status |-> "500"]
       /\ ProviderError(direct[a].result)
       /\ direct[b].pc = "rejected" /\ direct[b].requests = 1
       /\ direct[b].body = Ok(Reply(<< >>))
       /\ ProviderError(direct[b].result)

-----------------------------------------------------------------------------
(* Properties of the extraction of the JSON span.                           *)

\* The braces of text[i..j] balance.
Balanced(text, i, j) ==
  Cardinality({ k \in i..j : text[k] = "{" }) = Cardinality({ k \in i..j : text[k] = "}" })

\* The opening braces that have a matching closing brace, and the position
\* of that brace.
MatchedOpens(text) ==
  { i \in DOMAIN text : text[i] = "{" /\ \E j \in i..Len(text) : Balanced(text, i, j) }
MatchOf(text, i) ==
  CHOOSE j \in i..Len(text) :
    Balanced(text, i, j) /\ \A k \in i..(j - 1) : ~Balanced(text, i, k)

\* The first balanced {...} span of a text, if it has one.
HasBalancedSpan(text) == MatchedOpens(text) # {}
FirstBalancedSpan(text) ==
  LET first == CHOOSE i \in MatchedOpens(text) : \A k \in MatchedOpens(text) : i <= k
  IN SubSeq(text, first, MatchOf(text, first))

\* No opening brace of the text is matched, or its first one is.
FirstOpenMatched(text) ==
  \A i \in DOMAIN text :
    (text[i] = "{" /\ \A k \in 1..(i - 1) : text[k] # "{") =>
      (MatchedOpens(text) = {} \/ i \in MatchedOpens(text))

\* C18: on a successful reply the client extracts the first balanced {...}
\* span of the reply text and parses that span as JSON: whether the reply is
\* prose around one JSON object or several JSON-like fragments separated by
\* text, the object parsed is the first balanced one; the client fails if
\* and only if no such span exists or that span does not parse. Stated for
\* the texts that have no balanced span or whose first opening brace starts
\* one, where the first balanced span can be read in one way only.
C18_FirstBalancedSpan ==
  (replyResult # NotCalled /\ FirstOpenMatched(replyArg)) =>
    IF HasBalancedSpan(replyArg) /\ JSONparse(FirstBalancedSpan(replyArg)).ok
      THEN LET expected ==
                 validateAndTransformResponse(JSONparse(FirstBalancedSpan(replyArg)).value)
           IN IF expected.ok THEN replyResult = expected ELSE ~replyResult.ok
      ELSE ~replyResult.ok

-----------------------------------------------------------------------------
(* Properties of the orchestrator's lifecycle.                              *)

OneOfEach == [class \in DOMAIN NoneConstructed |-> 1]

\* C19: singleton lifecycle. After any sequence of AIService.getInstance()
\* calls every call has returned the same orchestrator instance, the
\* orchestrator constructor has run exactly once, and exactly one DeepSeek
\* client and one Gemini client have been created, which every
\* generateStoryMap and getAvailableProviders call uses.
C19_Singleton ==
  /\ Cardinality(returned) <= 1
  /\ instance = NoInstance =>
       /\ returned = {}
       /\ constructed = NoneConstructed
       /\ providers = NotCalled
       /\ \A c \in CallIds : ~Started(c)
  /\ instance # NoInstance =>
       /\ returned = { instance.id }
       /\ constructed = OneOfEach
       /\ \A c \in CallIds :
            calls[c].client # "none" =>
              ServiceOf(calls[c].client) =
                IF calls[c].client = "deepseek" THEN DeepSeekService(env.deepseek)
                ELSE GeminiService(env.gemini)

\* getInstance has returned the instance, the providers have been listed and
\* two invocations have gone through the DeepSeek and the Gemini client, with
\* one object of each class constructed.
C19_Witness ==
  /\ returned = { 1 }
  /\ constructed = OneOfEach
  /\ providers # NotCalled
  /\ \E a, b \in CallIds :
       /\ calls[a].client = "deepseek" /\ calls[a].requests = 1 /\ Returned(a)
       /\ calls[b].client = "gemini" /\ calls[b].requests = 1 /\ Returned(b)

-----------------------------------------------------------------------------
(* Properties of concurrent invocations.                                    *)

Suspended(c) == calls[c].pc \in { "delay", "fetch", "text", "json" }

\* What an invocation returns when it runs alone, from its description, its
\* provider and what its client's promise settled with.
Alone(call) ==
  IF /\ call.provider \in { "deepseek", "gemini" }
     /\ ClientIsConfigured(call.provider).value
     /\ call.clientResult # NotCalled
     /\ call.clientResult.ok
    THEN call.clientResult
    ELSE Ok(generateMockStoryMap(call.productDescription))

\* C20: concurrent generation requests are independent. Under every
\* interleaving of the suspension points of two overlapping invocations,
\* each returns the result its own description, provider and client outcome
\* determine; a step of one never changes the other, so a later invocation
\* neither aborts nor alters an earlier one; and an invocation that has
\* returned keeps its result.
C20_Independent ==
  /\ [](\A c \in CallIds : Returned(c) => calls[c].result = Alone(calls[c]))
  /\ [][/\ \A b, c \in CallIds :
            (calls'[b] # calls[b] /\ calls'[c] # calls[c]) => b = c
        /\ \A c \in CallIds :
            /\ Returned(c) => calls'[c] = calls[c]
            /\ Started(c) => /\ calls'[c].productDescription = calls[c].productDescription
                             /\ calls'[c].provider = calls[c].provider
                             /\ calls'[c].pc # "idle"]_vars

\* The second invocation was made while the first was suspended and has
\* returned its own result, a client's value, while the first, on the mock
\* path, is still waiting for its timer: the later one completed first.
C20_Witness ==
  /\ Suspended(1) /\ calls[1].pc = "delay"
  /\ Returned(2) /\ calls[2].client = "gemini"
  /\ calls[2].clientResult.ok
  /\ calls[2].result = calls[2].clientResult
  /\ calls[2].productDescription # calls[1].productDescription

-----------------------------------------------------------------------------
(* Properties of the artificial delay.                                      *)

\* The provider selects the mock case or the default case of the switch.
MockPath(call) == call.provider \notin { "deepseek", "gemini" }

\* The diagnostics of the orchestrator's catch in the log of an invocation.
Diagnostics(call) ==
  { n \in DOMAIN call.log :
      /\ call.log[n].level = "error"
      /\ call.log[n].text = "Error generating story map with" }

\* C21: the artificial delay happens exactly on the direct mock path. When
\* the provider is mock or an unrecognised selector the fixed delay elapses
\* before the mock result is produced; when mock content is returned as a
\* fallback (provider not configured, or a client error caught) the result
\* is produced without waiting for the delay, and in the caught-error case
\* one diagnostic naming the requested provider is logged before the result
\* is returned.
C21_DelayOnMockPathOnly ==
  \A c \in CallIds :
    /\ calls[c].pc = "delay" => MockPath(calls[c])
    /\ calls[c].delayed => MockPath(calls[c])
    /\ (Started(c) /\ MockPath(calls[c])) =>
         /\ calls[c].pc \in { "delay", "done" }
         /\ Returned(c) <=> calls[c].delayed
         /\ Diagnostics(calls[c]) = {}
    /\ (Returned(c) /\ ~MockPath(calls[c])) =>
         /\ ~calls[c].delayed
         /\ ClientFailed(c) =>
              /\ Cardinality(Diagnostics(calls[c])) = 1
              /\ \A n \in Diagnostics(calls[c]) :
                   calls[c].log[n].detail[1] = calls[c].provider
         /\ ~ClientFailed(c) => Diagnostics(calls[c]) = {}

\* One invocation with an unrecognised selector has returned mock content
\* after its delay; the other, for Gemini, has returned the same kind of
\* content without a delay after its client's error was caught and logged.
C21_Witness ==
  \E a, b \in CallIds :
    /\ Returned(a) /\ calls[a].provider = "openai" /\ calls[a].delayed
    /\ calls[a].result = Ok(generateMockStoryMap(calls[a].productDescription))
    /\ Returned(b) /\ calls[b].provider = "gemini" /\ ClientFailed(b)
    /\ ~calls[b].delayed
    /\ Cardinality(Diagnostics(calls[b])) = 1
    /\ calls[b].result = Ok(generateMockStoryMap(calls[b].productDescription))

-----------------------------------------------------------------------------
(* Termination of an invocation.                                            *)

\* The request of an invocation never settles.
Hung(c) == calls[c].pc = "hung"

\* An invocation that has returned has been through its await: the timer on
\* the mock path, its client's promise when a request was sent.
AwaitCompleted(c) ==
  /\ MockPath(calls[c]) => calls[c].delayed
  /\ calls[c].requests > 0 => calls[c].clientResult # NotCalled

\* C22: every generateStoryMap call eventually returns, given that the delay
\* timer fires and that its request resolves or rejects; it cannot return
\* before its suspension point has completed; and as no timeout is enforced,
\* a request that never settles leaves its call pending for ever, while the
\* other calls still return.
C22_EventuallyReturns ==
  /\ \A c \in CallIds : Started(c) ~> (Returned(c) \/ Hung(c))
  /\ [](\A c \in CallIds :
          /\ (Suspended(c) \/ Hung(c)) => calls[c].result = NotCalled
          /\ Returned(c) => AwaitCompleted(c))
  /\ [][\A c \in CallIds :
          calls'[c] # calls[c] =>
            /\ ~Hung(c)
            /\ (Suspended(c) /\ calls'[c].pc # "hung") => Resume(c)
            /\ (~Suspended(c) /\ calls'[c].pc = "done") =>
                 /\ calls[c].pc = "idle"
                 /\ ~MockPath(calls'[c])
                 /\ calls'[c].requests = 0]_vars

\* The earlier invocation is pending on a request that never settles; the
\* later ones have each returned, one after the delay and one after its own
\* request settled.
C22_Witness ==
  /\ Hung(1)
  /\ calls[1].requests = 1
  /\ calls[1].result = NotCalled
  /\ \A c \in CallIds \ { 1 } :
       /\ Returned(c)
       /\ calls[c].delayed \/ calls[c].requests = 1

====
